---------------------------- MODULE Spec2Model ----------------------------
(***************************************************************************)
(* Verification model of the test-generator analysis core:                 *)
(*   - TypeResolver            (src/src/type-resolver.ts)                  *)
(*   - generateMockValueForType (src/src/generator.ts)                     *)
(*   - analyzeBusinessFlow     (src/unnamed/part_000, the flow analyzer)   *)
(*   - mergeConfigs, loadConfig, findProjectRoot (src/src/config-loader.ts)*)
(*   - parseFile               (src/unnamed/part_004, the parser)          *)
(* Each component has its own specification; the variables of the          *)
(* components it does not use stay at their initial value.                 *)
(***************************************************************************)
EXTENDS Integers, Sequences, FiniteSets, TLC

VARIABLES
  \* TypeResolver instance (type-resolver.ts:7-10) and the outcome of the
  \* most recent resolveType call
  program, checker, disposed, resolveOut,
  \* generateMockValueForType: the annotation the argument was resolved from
  \* (if any), the argument and the outcome of the call
  mockNode, mockIn, mockOut,
  \* analyzeBusinessFlow: the inputs, the traversal stack and the result
  sourceFile, functionName, flowStack, analysis, flowPc,
  \* mergeConfigs: the two arguments and the outcome of the call
  projectConfig, cliConfig, mergeOut,
  \* loadConfig: the root it searches, the four candidate files, the
  \* candidate the loop is at and the outcome of the call
  projectRoot, configFiles, loadIndex, loadOut,
  \* parseFile: the argument, what the file system holds at that path, the
  \* module's typeResolver, the position in parseFile, the source file it
  \* created, its functions list and the outcome of the call; the compiler
  \* API call that throws when the resolver of this call reaches it
  filePath, fileEntry, typeResolver, parsePc, parseSource, functions, parseOut,
  checkerFailAt,
  \* findProjectRoot: the working directory, the directories that hold a
  \* package.json, what realpathSync answers for each directory, the three
  \* locals of the search, the directories the loop has looked into so far
  \* (in order), the position in the function and the outcome of the call
  cwd, packageJson, realPath, currentDir, depth, visited, examined, rootPc, rootOut

resolverVars == <<program, checker, disposed, resolveOut>>
mockVars == <<mockNode, mockIn, mockOut>>
flowVars == <<sourceFile, functionName, flowStack, analysis, flowPc>>
mergeVars == <<projectConfig, cliConfig, mergeOut>>
loadVars == <<projectRoot, configFiles, loadIndex, loadOut>>
parseVars ==
  <<filePath, fileEntry, typeResolver, parsePc, parseSource, functions, parseOut,
    checkerFailAt>>
rootVars ==
  <<cwd, packageJson, realPath, currentDir, depth, visited, examined, rootPc, rootOut>>
vars == <<resolverVars, mockVars, flowVars, mergeVars, loadVars, parseVars, rootVars>>

----------------------------------------------------------------------------
(* JavaScript strings.  A string is a TLA+ string; the operators below are *)
(* the String.prototype methods the code calls.                            *)

\* The value `undefined` where the code can hold it in a string-typed slot
\* (for example genericTypes[0] of an empty array); no type text equals it.
undefined == "<undefined>"

Min(a, b) == IF a <= b THEN a ELSE b

\* s.includes(k)
Includes(s, k) ==
  \E i \in 1..(Len(s) - Len(k) + 1) : SubSeq(s, i, i + Len(k) - 1) = k

\* s.startsWith(k)
StartsWith(s, k) == Len(k) <= Len(s) /\ SubSeq(s, 1, Len(k)) = k

UpperCaseLetters ==
  <<"A", "B", "C", "D", "E", "F", "G", "H", "I", "J", "K", "L", "M",
    "N", "O", "P", "Q", "R", "S", "T", "U", "V", "W", "X", "Y", "Z">>
LowerCaseLetters ==
  <<"a", "b", "c", "d", "e", "f", "g", "h", "i", "j", "k", "l", "m",
    "n", "o", "p", "q", "r", "s", "t", "u", "v", "w", "x", "y", "z">>

LowerChar(c) ==
  IF \E i \in 1..Len(UpperCaseLetters) : UpperCaseLetters[i] = c
  THEN LowerCaseLetters[CHOOSE i \in 1..Len(UpperCaseLetters) : UpperCaseLetters[i] = c]
  ELSE c

RECURSIVE ToLowerCase(_)
\* s.toLowerCase()
ToLowerCase(s) ==
  IF Len(s) = 0 THEN ""
  ELSE LowerChar(SubSeq(s, 1, 1)) \o ToLowerCase(SubSeq(s, 2, Len(s)))

RECURSIVE StripQuotes(_)
\* s.replace(/['"]/g, '')
StripQuotes(s) ==
  IF Len(s) = 0 THEN ""
  ELSE LET c == SubSeq(s, 1, 1)
           rest == StripQuotes(SubSeq(s, 2, Len(s)))
       IN IF c = "'" \/ c = "\"" THEN rest ELSE c \o rest

\* s.substring(0, n)
Substring0(s, n) == SubSeq(s, 1, Min(n, Len(s)))

Digits == <<"0", "1", "2", "3", "4", "5", "6", "7", "8", "9">>

RECURSIVE NatToString(_)
\* String(n) for a non-negative integer n
NatToString(n) ==
  IF n < 10 THEN Digits[n + 1]
  ELSE NatToString(n \div 10) \o Digits[(n % 10) + 1]

RECURSIVE JoinStrings(_, _)
\* parts.join(sep)
JoinStrings(parts, sep) ==
  IF Len(parts) = 0 THEN ""
  ELSE IF Len(parts) = 1 THEN parts[1]
  ELSE parts[1] \o sep \o JoinStrings(Tail(parts), sep)

----------------------------------------------------------------------------
(* Type annotations: the ts.TypeNode values the resolver reads.  A node    *)
(* carries its source text (getText()) and the parts its kind has; a part  *)
(* the node lacks is a field the record lacks.                             *)

NodeTexts(nodes) == [i \in 1..Len(nodes) |-> nodes[i].text]

\* string, number, boolean, any, void, never, undefined, ...
KeywordType(name) == [kind |-> "Keyword", text |-> name]
\* a type reference without type arguments: User
TypeRef(name) == [kind |-> "TypeReference", text |-> name, typeName |-> name]
\* a type reference with a type-argument list: Name<Args>
GenericRef(name, args) ==
  [kind |-> "TypeReference",
   text |-> name \o "<" \o JoinStrings(NodeTexts(args), ", ") \o ">",
   typeName |-> name, typeArguments |-> args]
UnionNode(types) ==
  [kind |-> "UnionType", text |-> JoinStrings(NodeTexts(types), " | "), types |-> types]
IntersectionNode(types) ==
  [kind |-> "IntersectionType", text |-> JoinStrings(NodeTexts(types), " & "),
   types |-> types]
TupleNode(elements) ==
  [kind |-> "TupleType", text |-> "[" \o JoinStrings(NodeTexts(elements), ", ") \o "]",
   elements |-> elements]
\* 'a'  (literal.text is the value between the quotes)
StringLiteralType(value) ==
  [kind |-> "LiteralType", text |-> "'" \o value \o "'",
   literal |-> [kind |-> "StringLiteral", text |-> value]]
NumericLiteralType(n) ==
  [kind |-> "LiteralType", text |-> NatToString(n),
   literal |-> [kind |-> "NumericLiteral", text |-> NatToString(n)]]
TrueLiteralType ==
  [kind |-> "LiteralType", text |-> "true", literal |-> [kind |-> "TrueKeyword", text |-> "true"]]
FalseLiteralType ==
  [kind |-> "LiteralType", text |-> "false",
   literal |-> [kind |-> "FalseKeyword", text |-> "false"]]
\* null in type position is a literal type whose literal is the null keyword
NullLiteralType ==
  [kind |-> "LiteralType", text |-> "null", literal |-> [kind |-> "NullKeyword", text |-> "null"]]

----------------------------------------------------------------------------
(* TypeInfo (the normalized type shape).  Optional properties are fields   *)
(* the record may lack; literalValue is tagged with its JavaScript type.   *)

StringValue(s) == [t |-> "string", s |-> s]
NumberValue(n) == [t |-> "number", n |-> n]
BooleanValue(b) == [t |-> "boolean", b |-> b]

\* the plain named shape wrapping a text
PlainTypeInfo(raw, baseType) ==
  [raw |-> raw, isUnion |-> FALSE, isGeneric |-> FALSE, isIntersection |-> FALSE,
   baseType |-> baseType]

\* {...r, more}: the fields of more override or extend those of r
Spread(r, more) ==
  [k \in (DOMAIN r) \cup (DOMAIN more) |-> IF k \in DOMAIN more THEN more[k] ELSE r[k]]
\* {...r, f: undefined}
Without(r, f) == [k \in (DOMAIN r) \ {f} |-> r[k]]

\* a boolean or string property read for its truthiness
Truthy(type, f) ==
  /\ f \in DOMAIN type
  /\ IF f = "resolvedType" THEN type[f] # "" ELSE type[f] = TRUE
\* an array property read for its truthiness (every array is truthy)
Present(type, f) == f \in DOMAIN type

\* xs[0] of an array of strings
FirstOrUndefined(xs) == IF Len(xs) > 0 THEN xs[1] ELSE undefined

RECURSIVE ParseNat(_)
\* parseFloat(text) for the text of a non-negative integer literal
ParseNat(text) ==
  IF Len(text) = 0 THEN 0
  ELSE LET last == SubSeq(text, Len(text), Len(text))
       IN 10 * ParseNat(SubSeq(text, 1, Len(text) - 1))
          + ((CHOOSE i \in 1..10 : Digits[i] = last) - 1)

RECURSIVE fallbackTypeInfo(_)
\* TypeResolver.fallbackTypeInfo: the shape read off the annotation's grammar
fallbackTypeInfo(typeNode) ==
  LET raw == typeNode.text IN
  IF typeNode.kind = "UnionType" THEN
    LET unionTypes == NodeTexts(typeNode.types) IN
    Spread(PlainTypeInfo(raw, unionTypes[1]),
           [isUnion |-> TRUE, unionTypes |-> unionTypes])
  ELSE IF typeNode.kind = "IntersectionType" THEN
    LET intersectionTypes == NodeTexts(typeNode.types) IN
    Spread(PlainTypeInfo(raw, intersectionTypes[1]),
           [isIntersection |-> TRUE, intersectionTypes |-> intersectionTypes])
  ELSE IF typeNode.kind = "TypeReference" /\ "typeArguments" \in DOMAIN typeNode THEN
    Spread(PlainTypeInfo(raw, typeNode.typeName),
           [isGeneric |-> TRUE, genericTypes |-> NodeTexts(typeNode.typeArguments)])
  ELSE IF typeNode.kind = "LiteralType" THEN
    LET literal == typeNode.literal IN
    IF literal.kind = "StringLiteral" THEN
      Spread(PlainTypeInfo(raw, "string"),
             [isLiteral |-> TRUE, literalValue |-> StringValue(literal.text)])
    ELSE IF literal.kind = "NumericLiteral" THEN
      Spread(PlainTypeInfo(raw, "number"),
             [isLiteral |-> TRUE, literalValue |-> NumberValue(ParseNat(literal.text))])
    ELSE IF literal.kind = "TrueKeyword" THEN
      Spread(PlainTypeInfo(raw, "boolean"),
             [isLiteral |-> TRUE, literalValue |-> BooleanValue(TRUE)])
    ELSE IF literal.kind = "FalseKeyword" THEN
      Spread(PlainTypeInfo(raw, "boolean"),
             [isLiteral |-> TRUE, literalValue |-> BooleanValue(FALSE)])
    ELSE \* value stays undefined: typeof value is 'undefined'
      Spread(PlainTypeInfo(raw, "undefined"), [isLiteral |-> TRUE])
  ELSE IF typeNode.kind = "TupleType" THEN
    Spread(PlainTypeInfo(raw, "tuple"),
           [isTuple |-> TRUE,
            tupleTypes |-> [i \in 1..Len(typeNode.elements) |->
                              fallbackTypeInfo(typeNode.elements[i])]])
  ELSE PlainTypeInfo(raw, raw)

----------------------------------------------------------------------------
(* The semantic path of the resolver.  A ts.Type is described by what the  *)
(* compiler API answers about it; the API call named by failAt throws.     *)

\* resolvedType is cut at this length (type-resolver.ts:323)
MaxResolvedTypeLength == 200

RECURSIVE Repeat(_, _)
Repeat(s, n) == IF n = 0 THEN "" ELSE s \o Repeat(s, n - 1)

\* raw || 'any'
RawOrAny(raw) == IF raw = "" THEN "any" ELSE raw

\* typeof value, for the value of a literal type (absent for true/false,
\* which the compiler represents without a value)
TypeOfValue(type) == IF "value" \in DOMAIN type THEN type.value.t ELSE "undefined"

\* TypeResolver.resolveCustomType: the declaration text of an interface or
\* type alias, cut to 200 characters; undefined (here "") otherwise or when
\* reading the declarations throws
resolveCustomType(symbol, failAt) ==
  IF failAt = "getDeclarations" THEN ""
  ELSE IF Len(symbol.declarations) = 0 THEN ""
  ELSE LET declaration == symbol.declarations[1] IN
       IF declaration.kind \in {"InterfaceDeclaration", "TypeAliasDeclaration"}
       THEN IF Len(declaration.text) > MaxResolvedTypeLength
            THEN SubSeq(declaration.text, 1, MaxResolvedTypeLength) \o "..."
            ELSE declaration.text
       ELSE ""

\* the element types of a tuple type, tried through its three representations
TupleElementTypes(type) ==
  LET first ==
        IF "elementTypes" \in DOMAIN type THEN type.elementTypes
        ELSE IF "targetElementTypes" \in DOMAIN type THEN type.targetElementTypes
        ELSE <<>>
  IN IF Len(first) = 0 /\ "typeArguments" \in DOMAIN type THEN type.typeArguments
     ELSE first

\* TypeResolver.typeToTypeInfo, entered with a type and a checker
typeToTypeInfo(type, raw, failAt) ==
  LET caught == PlainTypeInfo(RawOrAny(raw), RawOrAny(raw))
      \* a list of types rendered with checker.typeToString
      Rendering(texts, info) ==
        IF Len(texts) > 0 /\ failAt = "typeToString" THEN caught ELSE info
  IN
  IF failAt = "getFlags" THEN caught
  ELSE IF "Never" \in type.flags THEN
    Spread(PlainTypeInfo(raw, "never"), [isNever |-> TRUE])
  ELSE IF "Null" \in type.flags THEN
    Spread(PlainTypeInfo(raw, "null"), [isNull |-> TRUE])
  ELSE IF "Undefined" \in type.flags THEN
    Spread(PlainTypeInfo(raw, "undefined"), [isUndefined |-> TRUE])
  ELSE IF failAt = "isUnion" THEN caught
  ELSE IF type.isUnion THEN
    Rendering(type.types,
              Spread(PlainTypeInfo(raw, FirstOrUndefined(type.types)),
                     [isUnion |-> TRUE, unionTypes |-> type.types]))
  ELSE IF failAt = "isIntersection" THEN caught
  ELSE IF type.isIntersection THEN
    Rendering(type.types,
              Spread(PlainTypeInfo(raw, FirstOrUndefined(type.types)),
                     [isIntersection |-> TRUE, intersectionTypes |-> type.types]))
  ELSE IF type.flags \cap {"StringLiteral", "NumberLiteral", "BooleanLiteral"} # {} THEN
    IF "value" \in DOMAIN type
    THEN Spread(PlainTypeInfo(raw, TypeOfValue(type)),
                [isLiteral |-> TRUE, literalValue |-> type.value])
    ELSE Spread(PlainTypeInfo(raw, TypeOfValue(type)), [isLiteral |-> TRUE])
  ELSE IF failAt = "isTupleType" THEN caught
  ELSE IF type.isTuple THEN
    LET elementTypes == TupleElementTypes(type) IN
    Rendering(elementTypes,
              Spread(PlainTypeInfo(raw, "tuple"),
                     [isTuple |-> TRUE,
                      tupleTypes |-> [i \in 1..Len(elementTypes) |->
                                        PlainTypeInfo(elementTypes[i], elementTypes[i])]]))
  ELSE IF failAt = "getSymbol" THEN caught
  ELSE
    LET final ==
          \* the innermost try: a failing typeToString answers with raw
          IF failAt = "typeToString" THEN PlainTypeInfo(raw, raw)
          ELSE PlainTypeInfo(raw, type.display)
    IN
    IF "symbol" \in DOMAIN type THEN
      LET typeName == type.symbol.name IN
      IF type.aliasSymbol /\ "aliasTypeArguments" \in DOMAIN type
         /\ Len(type.aliasTypeArguments) > 0 THEN
        Rendering(type.aliasTypeArguments,
                  Spread(PlainTypeInfo(raw, typeName),
                         [isGeneric |-> TRUE, genericTypes |-> type.aliasTypeArguments]))
      ELSE IF "typeArguments" \in DOMAIN type /\ Len(type.typeArguments) > 0 THEN
        Rendering(type.typeArguments,
                  Spread(PlainTypeInfo(raw, typeName),
                         [isGeneric |-> TRUE, genericTypes |-> type.typeArguments]))
      ELSE
        LET resolvedType == resolveCustomType(type.symbol, failAt) IN
        IF resolvedType # ""
        THEN Spread(PlainTypeInfo(raw, typeName), [resolvedType |-> resolvedType])
        ELSE final
    ELSE final

----------------------------------------------------------------------------
(* generateMockValueForType (generator.ts).  A call either returns a      *)
(* value or raises; a returned value is a string except where a property   *)
(* lookup on the table object yields something else.                       *)

MockString(text) == [kind |-> "string", text |-> text]
\* undefined.toLowerCase() raises a TypeError
MockThrow == [kind |-> "throw", text |-> "TypeError"]
\* a value that is not a string, with the text a template literal gives it
MockOther(jsType, text) == [kind |-> jsType, text |-> text]

\* Template with the interpolated value left out
Template_DropsValue(pre, r, post) ==
  IF r.kind = "throw" THEN r ELSE MockString(pre \o post)

\* `${pre}${value}${post}`: a raising interpolation raises
Template(pre, r, post) ==
  IF r.kind = "throw" THEN r ELSE MockString(pre \o r.text \o post)

\* typeMap in insertion order (Object.entries order)
typeMap ==
  << <<"string", "'test-string'">>, <<"number", "42">>, <<"boolean", "true">>,
     <<"array", "[]">>, <<"object", "{}">>, <<"date", "new Date()">>,
     <<"any", "null">>, <<"unknown", "null">>, <<"void", "undefined">>,
     <<"never", "undefined">>, <<"null", "null">>, <<"undefined", "undefined">>,
     <<"map", "new Map()">>, <<"set", "new Set()">>, <<"regexp", "/test/">>,
     <<"error", "new Error(\"test\")">>, <<"function", "() => {}">>,
     <<"symbol", "Symbol(\"test\")">>, <<"bigint", "42n">> >>

typeMapHas(key) == \E i \in 1..Len(typeMap) : typeMap[i][1] = key
typeMapGet(key) == typeMap[CHOOSE i \in 1..Len(typeMap) : typeMap[i][1] = key][2]

\* typeMap[baseType] also finds what the table object inherits: of the
\* properties of Object.prototype, these two have an all-lowercase name
inheritedOfObject ==
  << <<"constructor", MockOther("function", "function Object() { [native code] }")>>,
     <<"__proto__", MockOther("object", "[object Object]")>> >>

\* String(type.literalValue) for a number or a boolean
LiteralText(v) ==
  IF v.t = "number" THEN NatToString(v.n)
  ELSE IF v.b THEN "true" ELSE "false"

\* the first raising element of a tuple raises; otherwise the texts are joined
JoinMocks(values) ==
  IF \E i \in 1..Len(values) : values[i].kind = "throw"
  THEN MockThrow
  ELSE MockString("[" \o JoinStrings([i \in 1..Len(values) |-> values[i].text], ", ") \o "]")

\* the last part of generateMockValueForType: the primitive-name table
MockByBaseName(type) ==
  IF type.baseType = undefined THEN MockThrow
  ELSE
    LET baseType == ToLowerCase(type.baseType) IN
    IF typeMapHas(baseType) THEN MockString(typeMapGet(baseType))
    ELSE IF \E i \in 1..Len(inheritedOfObject) : inheritedOfObject[i][1] = baseType
    THEN inheritedOfObject[CHOOSE i \in 1..Len(inheritedOfObject) :
                             inheritedOfObject[i][1] = baseType][2]
    ELSE IF \E i \in 1..Len(typeMap) : Includes(baseType, typeMap[i][1])
    THEN LET first == CHOOSE i \in 1..Len(typeMap) :
                        /\ Includes(baseType, typeMap[i][1])
                        /\ \A j \in 1..(i - 1) : ~Includes(baseType, typeMap[j][1])
         IN MockString(typeMap[first][2])
    ELSE IF Truthy(type, "resolvedType") THEN MockString("{}")
    ELSE MockString("{}")

RECURSIVE generateMockValueForType(_)
generateMockValueForType(type) ==
  IF Truthy(type, "isNever") THEN MockString("undefined")
  ELSE IF Truthy(type, "isNull") THEN MockString("null")
  ELSE IF Truthy(type, "isUndefined") THEN MockString("undefined")
  ELSE IF Truthy(type, "isLiteral") /\ Present(type, "literalValue") THEN
    IF type.literalValue.t = "string"
    THEN MockString("'" \o type.literalValue.s \o "'")
    ELSE MockString(LiteralText(type.literalValue))
  ELSE IF Truthy(type, "isUnion") /\ Present(type, "unionTypes")
          /\ Len(type.unionTypes) > 0 THEN
    generateMockValueForType(
      Without(Spread(type, [isUnion |-> FALSE, baseType |-> type.unionTypes[1]]),
              "unionTypes"))
  ELSE IF Truthy(type, "isIntersection") /\ Present(type, "intersectionTypes")
          /\ Len(type.intersectionTypes) > 0 THEN
    generateMockValueForType(
      Without(Spread(type, [isIntersection |-> FALSE,
                            baseType |-> type.intersectionTypes[1]]),
              "intersectionTypes"))
  ELSE IF Truthy(type, "isTuple") /\ Present(type, "tupleTypes") THEN
    JoinMocks([i \in 1..Len(type.tupleTypes) |->
                 generateMockValueForType(type.tupleTypes[i])])
  ELSE IF Truthy(type, "isGeneric") /\ Present(type, "genericTypes") THEN
    IF type.baseType = undefined THEN MockThrow
    ELSE
      LET baseType == ToLowerCase(type.baseType)
          innerType == FirstOrUndefined(type.genericTypes)
      IN
      IF baseType = "promise" THEN
        Template("Promise.resolve(",
                 generateMockValueForType(PlainTypeInfo(innerType, innerType)), ")")
      ELSE IF baseType = "array" \/ Includes(baseType, "array") THEN
        IF Len(type.genericTypes) > 0 THEN
          Template("[", generateMockValueForType(PlainTypeInfo(innerType, innerType)), "]")
        ELSE MockString("[]")
      ELSE IF baseType = "map" THEN MockString("new Map()")
      ELSE IF baseType = "set" THEN MockString("new Set()")
      ELSE generateMockValueForType(PlainTypeInfo(innerType, innerType))
  ELSE MockByBaseName(type)

----------------------------------------------------------------------------
(* Syntax trees (ts.Node) of a source file, as ts.createSourceFile builds  *)
(* them with parent links.  A node carries its kind, its source text       *)
(* (getText()) and the parts its kind has.  Each top-level statement of a  *)
(* file is written on a line of its own.                                   *)

Texts(nodes) == [i \in 1..Len(nodes) |-> nodes[i].text]

Ident(t) == [kind |-> "Identifier", text |-> t]
Token(kind, t) == [kind |-> kind, text |-> t]
StringLit(v) == [kind |-> "StringLiteral", text |-> "'" \o v \o "'"]
DoubleQuoted(v) == [kind |-> "StringLiteral", text |-> "\"" \o v \o "\""]
NumLit(n) == [kind |-> "NumericLiteral", text |-> NatToString(n)]
PropAccess(e, n) ==
  [kind |-> "PropertyAccessExpression", text |-> e.text \o "." \o n,
   expression |-> e, name |-> Ident(n)]
Call(callee, args) ==
  [kind |-> "CallExpression",
   text |-> callee.text \o "(" \o JoinStrings(Texts(args), ", ") \o ")",
   expression |-> callee, arguments |-> args]
New(callee, args) ==
  [kind |-> "NewExpression",
   text |-> "new " \o callee.text \o "(" \o JoinStrings(Texts(args), ", ") \o ")",
   expression |-> callee, arguments |-> args]
\* new X without an argument list: arguments is undefined
NewBare(callee) ==
  [kind |-> "NewExpression", text |-> "new " \o callee.text, expression |-> callee]
Await(e) == [kind |-> "AwaitExpression", text |-> "await " \o e.text, expression |-> e]
Conditional(c, a, b) ==
  [kind |-> "ConditionalExpression", text |-> c.text \o " ? " \o a.text \o " : " \o b.text,
   condition |-> c, questionToken |-> Token("QuestionToken", "?"), whenTrue |-> a,
   colonToken |-> Token("ColonToken", ":"), whenFalse |-> b]
Block(stmts) ==
  [kind |-> "Block",
   text |-> IF Len(stmts) = 0 THEN "{}" ELSE "{ " \o JoinStrings(Texts(stmts), " ") \o " }",
   statements |-> stmts]
Arrow(body) ==
  [kind |-> "ArrowFunction", text |-> "() => " \o body.text, parameters |-> <<>>,
   equalsGreaterThanToken |-> Token("EqualsGreaterThanToken", "=>"), body |-> body]
ExprStmt(e) == [kind |-> "ExpressionStatement", text |-> e.text \o ";", expression |-> e]
If(c, then) ==
  [kind |-> "IfStatement", text |-> "if (" \o c.text \o ") " \o then.text,
   expression |-> c, thenStatement |-> then]
IfElse(c, then, else) ==
  [kind |-> "IfStatement",
   text |-> "if (" \o c.text \o ") " \o then.text \o " else " \o else.text,
   expression |-> c, thenStatement |-> then, elseStatement |-> else]
CaseClause(e, stmts) ==
  [kind |-> "CaseClause",
   text |-> "case " \o e.text \o ":" \o JoinStrings(<<"">> \o Texts(stmts), " "),
   expression |-> e, statements |-> stmts]
DefaultClause(stmts) ==
  [kind |-> "DefaultClause", text |-> "default:" \o JoinStrings(<<"">> \o Texts(stmts), " "),
   statements |-> stmts]
Switch(e, clauses) ==
  LET caseBlock == [kind |-> "CaseBlock",
                    text |-> "{" \o JoinStrings(<<"">> \o Texts(clauses), " ") \o " }",
                    clauses |-> clauses]
  IN [kind |-> "SwitchStatement", text |-> "switch (" \o e.text \o ") " \o caseBlock.text,
      expression |-> e, caseBlock |-> caseBlock]
\* a declaration name, with its type annotation and initializer when given
VarDecl(n) == [kind |-> "VariableDeclaration", text |-> n, name |-> Ident(n)]
VarDeclTyped(n, t) ==
  [kind |-> "VariableDeclaration", text |-> n \o ": " \o t.text, name |-> Ident(n), type |-> t]
VarDeclInit(n, init) ==
  [kind |-> "VariableDeclaration", text |-> n \o " = " \o init.text, name |-> Ident(n),
   initializer |-> init]
VarDeclList(decls) ==
  [kind |-> "VariableDeclarationList",
   text |-> "const " \o JoinStrings(Texts(decls), ", "), declarations |-> decls]
VarStmt(decls) ==
  [kind |-> "VariableStatement", text |-> VarDeclList(decls).text \o ";",
   declarationList |-> VarDeclList(decls)]
ForOf(n, e, body) ==
  [kind |-> "ForOfStatement",
   text |-> "for (const " \o n \o " of " \o e.text \o ") " \o body.text,
   initializer |-> VarDeclList(<<VarDecl(n)>>), expression |-> e, statement |-> body]
ForIn(n, e, body) ==
  [kind |-> "ForInStatement",
   text |-> "for (const " \o n \o " in " \o e.text \o ") " \o body.text,
   initializer |-> VarDeclList(<<VarDecl(n)>>), expression |-> e, statement |-> body]
\* for (;;) body
ForEver(body) == [kind |-> "ForStatement", text |-> "for (;;) " \o body.text, statement |-> body]
While(e, body) ==
  [kind |-> "WhileStatement", text |-> "while (" \o e.text \o ") " \o body.text,
   expression |-> e, statement |-> body]
DoWhile(body, e) ==
  [kind |-> "DoStatement", text |-> "do " \o body.text \o " while (" \o e.text \o ");",
   statement |-> body, expression |-> e]
Throw(e) == [kind |-> "ThrowStatement", text |-> "throw " \o e.text \o ";", expression |-> e]
Return(e) == [kind |-> "ReturnStatement", text |-> "return " \o e.text \o ";", expression |-> e]
ReturnVoid == [kind |-> "ReturnStatement", text |-> "return;"]
\* catch (decl) block
Catch(decl, block) ==
  [kind |-> "CatchClause", text |-> "catch (" \o decl.text \o ") " \o block.text,
   variableDeclaration |-> decl, block |-> block]
\* catch block, without a binding
CatchBare(block) == [kind |-> "CatchClause", text |-> "catch " \o block.text, block |-> block]
Try(block, catch) ==
  [kind |-> "TryStatement", text |-> "try " \o block.text \o " " \o catch.text,
   tryBlock |-> block, catchClause |-> catch]
TryFinally(block, finally) ==
  [kind |-> "TryStatement", text |-> "try " \o block.text \o " finally " \o finally.text,
   tryBlock |-> block, finallyBlock |-> finally]
Param(n) == [kind |-> "Parameter", text |-> n, name |-> Ident(n)]
ParamInit(n, init) ==
  [kind |-> "Parameter", text |-> n \o " = " \o init.text, name |-> Ident(n),
   initializer |-> init]
FuncDecl(n, params, body) ==
  [kind |-> "FunctionDeclaration",
   text |-> "function " \o n \o "(" \o JoinStrings(Texts(params), ", ") \o ") " \o body.text,
   name |-> Ident(n), parameters |-> params, body |-> body]
Method(n, params, body) ==
  [kind |-> "MethodDeclaration",
   text |-> n \o "(" \o JoinStrings(Texts(params), ", ") \o ") " \o body.text,
   name |-> Ident(n), parameters |-> params, body |-> body]
Class(n, members) ==
  [kind |-> "ClassDeclaration",
   text |-> "class " \o n \o " {" \o JoinStrings(<<"">> \o Texts(members), " ") \o " }",
   name |-> Ident(n), members |-> members]
SourceFile(stmts) ==
  [kind |-> "SourceFile", text |-> JoinStrings(Texts(stmts), "\n"), statements |-> stmts,
   endOfFileToken |-> Token("EndOfFileToken", "")]

\* declarations as the extractor (src/unnamed/part_004) reads them
Modifier(kind, t) == Token(kind, t)
ExportKeyword == Modifier("ExportKeyword", "export")
DefaultKeyword == Modifier("DefaultKeyword", "default")
StaticKeyword == Modifier("StaticKeyword", "static")
\* a declaration written after its modifiers
WithModifiers(mods, node) ==
  Spread(node, [modifiers |-> mods, text |-> JoinStrings(Texts(mods) \o <<node.text>>, " ")])
\* function (params) body: a function declaration without a name
AnonFuncDecl(params, body) ==
  [kind |-> "FunctionDeclaration",
   text |-> "function (" \o JoinStrings(Texts(params), ", ") \o ") " \o body.text,
   parameters |-> params, body |-> body]
FuncExpr(params, body) ==
  [kind |-> "FunctionExpression",
   text |-> "function (" \o JoinStrings(Texts(params), ", ") \o ") " \o body.text,
   parameters |-> params, body |-> body]
ArrowWith(params, body) ==
  [kind |-> "ArrowFunction",
   text |-> "(" \o JoinStrings(Texts(params), ", ") \o ") => " \o body.text,
   parameters |-> params,
   equalsGreaterThanToken |-> Token("EqualsGreaterThanToken", "=>"), body |-> body]
\* binding patterns: { a, b: c }  [a, , b]
BindingElement(name) == [kind |-> "BindingElement", text |-> name.text, name |-> name]
BindingProperty(prop, name) ==
  [kind |-> "BindingElement", text |-> prop \o ": " \o name.text,
   propertyName |-> Ident(prop), name |-> name]
OmittedExpression == [kind |-> "OmittedExpression", text |-> ""]
ObjectBindingPattern(elements) ==
  [kind |-> "ObjectBindingPattern",
   text |-> "{ " \o JoinStrings(Texts(elements), ", ") \o " }", elements |-> elements]
ArrayBindingPattern(elements) ==
  [kind |-> "ArrayBindingPattern",
   text |-> "[" \o JoinStrings(Texts(elements), ", ") \o "]", elements |-> elements]
\* a parameter whose name is a binding pattern
ParamPattern(pattern) == [kind |-> "Parameter", text |-> pattern.text, name |-> pattern]
\* name?  ...name
ParamOptional(n) ==
  [kind |-> "Parameter", text |-> n \o "?", name |-> Ident(n),
   questionToken |-> Token("QuestionToken", "?")]
ParamRest(n) ==
  [kind |-> "Parameter", text |-> "..." \o n,
   dotDotDotToken |-> Token("DotDotDotToken", "..."), name |-> Ident(n)]
\* name: Type
ParamTyped(n, typeNode) ==
  [kind |-> "Parameter", text |-> n \o ": " \o typeNode.text, name |-> Ident(n),
   type |-> typeNode]
\* ...[a, b]: a rest parameter whose name is a binding pattern
ParamRestPattern(pattern) ==
  [kind |-> "Parameter", text |-> "..." \o pattern.text,
   dotDotDotToken |-> Token("DotDotDotToken", "..."), name |-> pattern]
PropAssign(n, init) ==
  [kind |-> "PropertyAssignment", text |-> n \o ": " \o init.text, name |-> Ident(n),
   initializer |-> init]
ObjLit(props) ==
  [kind |-> "ObjectLiteralExpression",
   text |-> "{ " \o JoinStrings(Texts(props), ", ") \o " }", properties |-> props]
Constructor(params, body) ==
  [kind |-> "Constructor",
   text |-> "constructor(" \o JoinStrings(Texts(params), ", ") \o ") " \o body.text,
   parameters |-> params, body |-> body]
GetAccessor(n, body) ==
  [kind |-> "GetAccessor", text |-> "get " \o n \o "() " \o body.text,
   name |-> Ident(n), parameters |-> <<>>, body |-> body]
SetAccessor(n, params, body) ==
  [kind |-> "SetAccessor",
   text |-> "set " \o n \o "(" \o JoinStrings(Texts(params), ", ") \o ") " \o body.text,
   name |-> Ident(n), parameters |-> params, body |-> body]
\* class { members }: a class declaration without a name
AnonClass(members) ==
  [kind |-> "ClassDeclaration",
   text |-> "class {" \o JoinStrings(<<"">> \o Texts(members), " ") \o " }",
   members |-> members]
\* export default expression;
ExportAssignment(e) ==
  [kind |-> "ExportAssignment", text |-> "export default " \o e.text \o ";", expression |-> e]

RECURSIVE ConcatAll(_)
\* the lists of a list, joined in order
ConcatAll(seqs) == IF Len(seqs) = 0 THEN <<>> ELSE Head(seqs) \o ConcatAll(Tail(seqs))

\* a part of a node, as a list: empty when the node lacks the part
Part(node, f) == IF f \in DOMAIN node THEN <<node[f]>> ELSE <<>>
Parts(node, f) == IF f \in DOMAIN node THEN node[f] ELSE <<>>

\* ts.forEachChild: the children of a node in the order they are visited
ChildrenOf(node) ==
  CASE node.kind = "SourceFile" -> node.statements \o <<node.endOfFileToken>>
    [] node.kind \in {"FunctionDeclaration", "MethodDeclaration", "FunctionExpression",
                      "Constructor", "GetAccessor", "SetAccessor"} ->
         Parts(node, "modifiers") \o Part(node, "name") \o node.parameters \o <<node.body>>
    [] node.kind = "ArrowFunction" ->
         node.parameters \o <<node.equalsGreaterThanToken, node.body>>
    [] node.kind = "Parameter" ->
         Part(node, "dotDotDotToken") \o <<node.name>> \o Part(node, "questionToken")
         \o Part(node, "type") \o Part(node, "initializer")
    [] node.kind = "ClassDeclaration" ->
         Parts(node, "modifiers") \o Part(node, "name") \o node.members
    [] node.kind = "VariableStatement" -> Parts(node, "modifiers") \o <<node.declarationList>>
    [] node.kind \in {"ObjectBindingPattern", "ArrayBindingPattern"} -> node.elements
    [] node.kind = "BindingElement" -> Part(node, "propertyName") \o <<node.name>>
    [] node.kind = "ObjectLiteralExpression" -> node.properties
    [] node.kind = "PropertyAssignment" -> <<node.name, node.initializer>>
    [] node.kind = "ExportAssignment" -> <<node.expression>>
    [] node.kind = "VariableDeclarationList" -> node.declarations
    [] node.kind = "VariableDeclaration" ->
         <<node.name>> \o Part(node, "type") \o Part(node, "initializer")
    [] node.kind \in {"Block", "DefaultClause"} -> node.statements
    [] node.kind = "CaseClause" -> <<node.expression>> \o node.statements
    [] node.kind = "CaseBlock" -> node.clauses
    [] node.kind = "SwitchStatement" -> <<node.expression, node.caseBlock>>
    [] node.kind = "IfStatement" ->
         <<node.expression, node.thenStatement>> \o Part(node, "elseStatement")
    [] node.kind \in {"ForOfStatement", "ForInStatement"} ->
         <<node.initializer, node.expression, node.statement>>
    [] node.kind = "ForStatement" -> <<node.statement>>
    [] node.kind = "WhileStatement" -> <<node.expression, node.statement>>
    [] node.kind = "DoStatement" -> <<node.statement, node.expression>>
    [] node.kind \in {"ExpressionStatement", "ThrowStatement", "AwaitExpression"} ->
         <<node.expression>>
    [] node.kind = "ReturnStatement" -> Part(node, "expression")
    [] node.kind = "TryStatement" ->
         <<node.tryBlock>> \o Part(node, "catchClause") \o Part(node, "finallyBlock")
    [] node.kind = "CatchClause" -> Part(node, "variableDeclaration") \o <<node.block>>
    [] node.kind \in {"CallExpression", "NewExpression"} ->
         <<node.expression>> \o Parts(node, "arguments")
    [] node.kind = "PropertyAccessExpression" -> <<node.expression, node.name>>
    [] node.kind = "ConditionalExpression" ->
         <<node.condition, node.questionToken, node.whenTrue, node.colonToken,
           node.whenFalse>>
    [] OTHER -> <<>>

RECURSIVE NodeAt(_, _)
\* the node reached from root by a path of child positions
NodeAt(root, path) ==
  IF Len(path) = 0 THEN root
  ELSE NodeAt(ChildrenOf(root)[path[1]], Tail(path))

\* node.parent, as a path (the source file has no parent)
ParentPath(path) == SubSeq(path, 1, Len(path) - 1)

\* getLineAndCharacterOfPosition(node.getStart()).line + 1: every top-level
\* statement is on its own line, so the line is the statement's position
LineOf(path) == IF Len(path) = 0 THEN 1 ELSE path[1]

----------------------------------------------------------------------------
(* analyzeBusinessFlow (the flow analyzer).                                *)

\* consequence and alternative of an if are cut at this length
ConsequenceLength == 50

\* the analysis as analyzeBusinessFlow creates it
NewAnalysis ==
  [conditions |-> <<>>, loops |-> <<>>, errorHandling |-> <<>>, externalCalls |-> <<>>,
   returnStatements |-> <<>>, complexity |-> 1]

iterationMethods == {"forEach", "map", "filter", "reduce", "find", "some", "every"}
builtins == {"console", "Math", "Date", "JSON", "Object", "Array"}

RECURSIVE NearestIfPath(_, _)
\* the walk `current = node.parent; while (current) ...`: the path of the
\* nearest ancestor that is an if statement, or <<0>> when the walk passes
\* the source file without meeting one
NearestIfPath(root, current) ==
  IF NodeAt(root, current).kind = "IfStatement" THEN current
  ELSE IF Len(current) = 0 THEN <<0>>
  ELSE NearestIfPath(root, ParentPath(current))

\* analyzeNode, if statements: the entry pushed to conditions
ifConditions(node, line) ==
  IF node.kind = "IfStatement" THEN
    IF "elseStatement" \in DOMAIN node
    THEN <<[type |-> "if", condition |-> node.expression.text,
            consequence |-> Substring0(node.thenStatement.text, ConsequenceLength),
            alternative |-> Substring0(node.elseStatement.text, ConsequenceLength),
            line |-> line]>>
    ELSE <<[type |-> "if", condition |-> node.expression.text,
            consequence |-> Substring0(node.thenStatement.text, ConsequenceLength),
            line |-> line]>>
  ELSE <<>>

\* analyzeNode, switch statements
switchConditions(node, line) ==
  IF node.kind = "SwitchStatement" THEN
    <<[type |-> "switch", condition |-> node.expression.text,
       consequence |-> NatToString(Len(node.caseBlock.clauses)) \o " cases",
       line |-> line]>>
  ELSE <<>>

\* analyzeNode, ternary operators
ternaryConditions(node, line) ==
  IF node.kind = "ConditionalExpression" THEN
    <<[type |-> "ternary", condition |-> node.condition.text,
       consequence |-> node.whenTrue.text, alternative |-> node.whenFalse.text,
       line |-> line]>>
  ELSE <<>>

\* analyzeNode, for / for-of / for-in
forLoops(node, line) ==
  IF node.kind \in {"ForStatement", "ForOfStatement", "ForInStatement"} THEN
    <<[type |-> "for",
       variable |-> IF node.kind \in {"ForOfStatement", "ForInStatement"}
                    THEN node.initializer.text ELSE "",
       line |-> line]>>
  ELSE <<>>

\* analyzeNode, while / do-while
whileLoops(node, line) ==
  IF node.kind \in {"WhileStatement", "DoStatement"}
  THEN <<[type |-> "while", line |-> line]>>
  ELSE <<>>

\* a call of one of the array iteration methods
isIterationCall(node) ==
  /\ node.kind = "CallExpression"
  /\ node.expression.kind = "PropertyAccessExpression"
  /\ node.expression.name.text \in iterationMethods

\* analyzeNode, array methods
iterationLoops(node, line) ==
  IF isIterationCall(node) THEN
    <<[type |-> node.expression.name.text,
       variable |-> node.expression.expression.text, line |-> line]>>
  ELSE <<>>

\* throwErrors with the argument text taken as written, quotes included
throwErrors_KeepQuotes(node, line) ==
  IF node.kind = "ThrowStatement" THEN
    LET isNew == node.expression.kind = "NewExpression" IN
    <<[type |-> "throw",
       errorType |-> IF isNew THEN node.expression.expression.text ELSE "Error",
       errorMessage |->
         IF /\ isNew
            /\ "arguments" \in DOMAIN node.expression
            /\ Len(node.expression.arguments) > 0
         THEN node.expression.arguments[1].text
         ELSE "",
       line |-> line]>>
  ELSE <<>>

\* analyzeNode, throw statements
throwErrors(node, line) ==
  IF node.kind = "ThrowStatement" THEN
    LET isNew == node.expression.kind = "NewExpression" IN
    <<[type |-> "throw",
       errorType |-> IF isNew THEN node.expression.expression.text ELSE "Error",
       errorMessage |->
         IF /\ isNew
            /\ "arguments" \in DOMAIN node.expression
            /\ Len(node.expression.arguments) > 0
         THEN StripQuotes(node.expression.arguments[1].text)
         ELSE "",
       line |-> line]>>
  ELSE <<>>

\* analyzeNode, try-catch blocks
tryErrors(node, line) ==
  IF node.kind = "TryStatement" THEN
    <<[type |-> "try-catch",
       errorType |->
         IF /\ "catchClause" \in DOMAIN node
            /\ "variableDeclaration" \in DOMAIN node.catchClause
            /\ "type" \in DOMAIN node.catchClause.variableDeclaration
            /\ node.catchClause.variableDeclaration.type.text # ""
         THEN node.catchClause.variableDeclaration.type.text
         ELSE "any",
       line |-> line]>>
  ELSE <<>>

\* analyzeNode, function calls: parent is the node's parent (a call
\* expression always has one)
externalCallsOf(node, parent, line) ==
  IF /\ node.kind = "CallExpression"
     /\ ~\E b \in builtins : StartsWith(node.expression.text, b)
     /\ ~Includes(node.expression.text, ".length")
     /\ ~Includes(node.expression.text, ".toString")
  THEN <<[functionName |-> node.expression.text,
          isAsync |-> parent.kind = "AwaitExpression", line |-> line]>>
  ELSE <<>>

\* returnsOf with the walk given up after the parent of the return statement
returnsOf_ParentOnly(root, path, line) ==
  LET node == NodeAt(root, path) IN
  IF node.kind = "ReturnStatement" THEN
    LET returnValue ==
          IF "expression" \in DOMAIN node /\ node.expression.text # ""
          THEN node.expression.text ELSE "void"
        parent == NodeAt(root, ParentPath(path))
    IN IF parent.kind # "IfStatement"
       THEN <<[type |-> returnValue, line |-> line]>>
       ELSE <<[type |-> returnValue, condition |-> parent.expression.text, line |-> line]>>
  ELSE <<>>

\* analyzeNode, return statements
returnsOf(root, path, line) ==
  LET node == NodeAt(root, path) IN
  IF node.kind = "ReturnStatement" THEN
    LET returnValue ==
          IF "expression" \in DOMAIN node /\ node.expression.text # ""
          THEN node.expression.text ELSE "void"
        ifPath == NearestIfPath(root, ParentPath(path))
    IN IF ifPath = <<0>>
       THEN <<[type |-> returnValue, line |-> line]>>
       ELSE <<[type |-> returnValue, condition |-> NodeAt(root, ifPath).expression.text,
               line |-> line]>>
  ELSE <<>>

\* complexityOf with a switch counted once instead of once per clause
complexityOf_SwitchCountsOne(node) ==
  (IF node.kind = "IfStatement" THEN 1 ELSE 0)
  + (IF node.kind = "SwitchStatement" THEN 1 ELSE 0)
  + (IF node.kind = "ConditionalExpression" THEN 1 ELSE 0)
  + (IF node.kind \in {"ForStatement", "ForOfStatement", "ForInStatement"} THEN 2 ELSE 0)
  + (IF node.kind \in {"WhileStatement", "DoStatement"} THEN 2 ELSE 0)
  + (IF isIterationCall(node) THEN 1 ELSE 0)
  + (IF node.kind = "ThrowStatement" THEN 1 ELSE 0)
  + (IF node.kind = "TryStatement" THEN 1 ELSE 0)

\* what one node adds to analysis.complexity
complexityOf(node) ==
  (IF node.kind = "IfStatement" THEN 1 ELSE 0)
  + (IF node.kind = "SwitchStatement" THEN Len(node.caseBlock.clauses) ELSE 0)
  + (IF node.kind = "ConditionalExpression" THEN 1 ELSE 0)
  + (IF node.kind \in {"ForStatement", "ForOfStatement", "ForInStatement"} THEN 2 ELSE 0)
  + (IF node.kind \in {"WhileStatement", "DoStatement"} THEN 2 ELSE 0)
  + (IF isIterationCall(node) THEN 1 ELSE 0)
  + (IF node.kind = "ThrowStatement" THEN 1 ELSE 0)
  + (IF node.kind = "TryStatement" THEN 1 ELSE 0)

\* the part of analyzeNode that reads one node: the analysis after the node
\* at path has been classified (its children are visited afterwards)
analyzeNode(a, root, path) ==
  LET node == NodeAt(root, path)
      line == LineOf(path)
  IN [conditions |->
        a.conditions \o ifConditions(node, line) \o switchConditions(node, line)
        \o ternaryConditions(node, line),
      loops |->
        a.loops \o forLoops(node, line) \o whileLoops(node, line)
        \o iterationLoops(node, line),
      errorHandling |-> a.errorHandling \o throwErrors(node, line) \o tryErrors(node, line),
      externalCalls |->
        a.externalCalls
        \o IF Len(path) = 0 THEN <<>>
           ELSE externalCallsOf(node, NodeAt(root, ParentPath(path)), line),
      returnStatements |-> a.returnStatements \o returnsOf(root, path, line),
      complexity |-> a.complexity + complexityOf(node)]

\* isTargetFunction with the name test of methods left out
isTargetFunction_AnyMethod(node, name) ==
  \/ node.kind = "FunctionDeclaration" /\ node.name.text = name
  \/ /\ node.kind = "VariableStatement"
     /\ \E i \in 1..Len(node.declarationList.declarations) :
          node.declarationList.declarations[i].name.text = name
  \/ node.kind = "MethodDeclaration"

\* isTargetFunction of findAndAnalyzeFunction
isTargetFunction(node, name) ==
  \/ node.kind = "FunctionDeclaration" /\ node.name.text = name
  \/ /\ node.kind = "VariableStatement"
     /\ \E i \in 1..Len(node.declarationList.declarations) :
          node.declarationList.declarations[i].name.text = name
  \/ node.kind = "MethodDeclaration" /\ node.name.text = name

\* the calls pending on the children of the node at path, first child first
ChildFrames(mode, root, path) ==
  [i \in 1..Len(ChildrenOf(NodeAt(root, path))) |-> [mode |-> mode, path |-> path \o <<i>>]]

----------------------------------------------------------------------------
(* Configuration (src/src/config-loader.ts).  A config object is a record  *)
(* of the properties the loader reads; a property that is absent or set to *)
(* undefined reads as undefined.  framework and style are strings, the     *)
(* other properties are tagged values.                                     *)

UndefinedValue == [t |-> "undefined"]
ArrayValue(items) == [t |-> "array", items |-> items]

\* {} as ProjectConfig / Partial<TestConfig>
EmptyConfig ==
  [framework |-> undefined, style |-> undefined, includeComments |-> UndefinedValue,
   generateMocks |-> UndefinedValue, testEach |-> UndefinedValue,
   outputPath |-> undefined, ignorePatterns |-> UndefinedValue]

CONFIG_FILES == <<".testgenrc.json", ".testgenrc.js", "testgen.config.json", "testgen.config.js">>

\* s.endsWith(k)
EndsWith(s, k) == Len(k) <= Len(s) /\ SubSeq(s, Len(s) - Len(k) + 1, Len(s)) = k

ConfigError(message) == [kind |-> "throw", error |-> "ConfigError", message |-> message]
ConfigReturn(config) == [kind |-> "return", config |-> config]

validFrameworks == <<"jest", "vitest", "mocha">>
validStyles == <<"basic", "strict", "bdd", "smart">>

\* xs.includes(v) on an array of strings
ArrayIncludes(xs, v) == \E i \in 1..Len(xs) : xs[i] = v

isValidFramework(value) == ArrayIncludes(validFrameworks, value)
isValidStyle(value) == ArrayIncludes(validStyles, value)

\* a || b on string-or-undefined operands: the empty string is falsy too
OrString(a, b) == IF a = undefined \/ a = "" THEN b ELSE a
\* a || b on array-or-undefined operands: every array is truthy
OrArray(a, b) == IF a.t = "undefined" THEN b ELSE a
\* a differently-built merge of one boolean option: a false operand gives way like an unset one
Coalesce_Falsy(a, b) == IF a.t = "undefined" \/ a.t = "null" \/ a = BooleanValue(FALSE) THEN b ELSE a
\* a ?? b
Coalesce(a, b) == IF a.t = "undefined" \/ a.t = "null" THEN b ELSE a

\* typeof v of a tagged value
TypeOf(v) == IF v.t = "array" \/ v.t = "null" THEN "object" ELSE v.t

validateConfig(config) ==
  IF config.framework # undefined /\ config.framework # "" /\ ~ArrayIncludes(validFrameworks, config.framework)
  THEN ConfigError("Invalid framework \"" \o config.framework \o "\" in config. Valid options: "
                   \o JoinStrings(validFrameworks, ", "))
  ELSE IF config.style # undefined /\ config.style # "" /\ ~ArrayIncludes(validStyles, config.style)
  THEN ConfigError("Invalid style \"" \o config.style \o "\" in config. Valid options: "
                   \o JoinStrings(validStyles, ", "))
  ELSE IF config.includeComments.t # "undefined" /\ TypeOf(config.includeComments) # "boolean"
  THEN ConfigError("includeComments must be a boolean, got " \o TypeOf(config.includeComments))
  ELSE IF config.generateMocks.t # "undefined" /\ TypeOf(config.generateMocks) # "boolean"
  THEN ConfigError("generateMocks must be a boolean, got " \o TypeOf(config.generateMocks))
  ELSE IF config.ignorePatterns.t # "undefined" /\ config.ignorePatterns.t # "array"
  THEN ConfigError("ignorePatterns must be an array, got " \o TypeOf(config.ignorePatterns))
  ELSE ConfigReturn(config)

\* a missing argument is replaced by {}, which reads the same as EmptyConfig
mergeConfigs(project, cli) ==
  LET framework == OrString(cli.framework, OrString(project.framework, "jest"))
      style == OrString(cli.style, OrString(project.style, "basic"))
  IN IF ~isValidFramework(framework)
     THEN ConfigError("Invalid framework: " \o framework \o ". Valid options: "
                      \o JoinStrings(validFrameworks, ", "))
     ELSE IF ~isValidStyle(style)
     THEN ConfigError("Invalid style: " \o style \o ". Valid options: "
                      \o JoinStrings(validStyles, ", "))
     ELSE ConfigReturn(
            [framework |-> framework,
             style |-> style,
             includeComments |-> Coalesce(cli.includeComments, Coalesce(project.includeComments, BooleanValue(TRUE))),
             generateMocks |-> Coalesce(cli.generateMocks, Coalesce(project.generateMocks, BooleanValue(FALSE))),
             testEach |-> Coalesce(cli.testEach, Coalesce(project.testEach, BooleanValue(FALSE))),
             outputPath |-> cli.outputPath,
             ignorePatterns |-> OrArray(cli.ignorePatterns, OrArray(project.ignorePatterns, ArrayValue(<<>>)))])

\* the candidate file at CONFIG_FILES[i]: what existsSync / readFileSync /
\* JSON.parse / import find there, and the object it holds when it holds one
ConfigFile(state, config) == [state |-> state, config |-> config]
MissingFile == ConfigFile("missing", EmptyConfig)

\* the message of the SyntaxError JSON.parse raises on '{ invalid json }'
JsonParseMessage == "Unexpected token i in JSON at position 2"

\* a differently-built .json branch: a parse failure is left to the inner catch, which moves on
loadJsonConfig_SwallowParseError(file, configPath) ==
  IF file.state = "blank" \/ file.state = "unreadable" \/ file.state = "invalidJson"
  THEN [kind |-> "continue"]
  ELSE IF file.state = "nonObject"
  THEN ConfigError("Config file must export an object: " \o configPath)
  ELSE validateConfig(file.config)

\* loadConfig, .json branch (lines 31-54) with its catch (lines 97-105), on a
\* file that exists: a blank file is skipped, and so is one readFileSync
\* fails on, whose error the catch swallows
loadJsonConfig(file, configPath) ==
  IF file.state = "blank" \/ file.state = "unreadable"
  THEN [kind |-> "continue"]
  ELSE IF file.state = "invalidJson"
  THEN ConfigError("Invalid JSON in config file: " \o JsonParseMessage)
  ELSE IF file.state = "nonObject"
  THEN ConfigError("Config file must export an object: " \o configPath)
  ELSE validateConfig(file.config)

\* loadConfig, .js branch (lines 55-96): any failure of the import, the
\* ConfigError of its own checks included, is caught and the file is loaded
\* again with require; a failure there is wrapped in a ConfigError
loadJsConfig(file, configPath) ==
  LET viaRequire ==
        IF file.state = "loadFails" THEN ConfigError("Cannot find module")
        ELSE IF file.state = "nonObject"
        THEN ConfigError("Config file must export an object: " \o configPath)
        ELSE validateConfig(file.config)
  IN IF viaRequire.kind = "throw"
     THEN ConfigError("Failed to load config file: " \o viaRequire.message)
     ELSE viaRequire

\* path.join(root, configFile)
PathJoin(root, file) == root \o "/" \o file

----------------------------------------------------------------------------
(* The annotations and shapes the properties range over.                   *)

\* longest tuple, longest type-argument list, most union/intersection members
MaxTupleLen == 2
MaxTypeArgs == 1
MaxMembers == 2

SeqsOf(S, lo, hi) == UNION {[1..n -> S] : n \in lo..hi}

\* an absent annotation (a falsy typeNode)
NoTypeNode == [kind |-> "Undefined", text |-> ""]

AtomTypeNodes ==
  {KeywordType("string"), KeywordType("number"), KeywordType("never"),
   TypeRef("User"), StringLiteralType("a"), NumericLiteralType(7), TrueLiteralType,
   NullLiteralType}

GenericNames == {"Array", "Promise", "Map", "Set", "ReadonlyArray", "Partial"}

SimpleTypeNodes ==
  AtomTypeNodes
  \cup {GenericRef(n, a) : n \in GenericNames, a \in SeqsOf(AtomTypeNodes, 1, MaxTypeArgs)}
  \cup {TupleNode(e) : e \in SeqsOf(AtomTypeNodes, 0, MaxTupleLen)}

\* the members after the first one
RestMembers == {KeywordType("number"), NullLiteralType}

UnionTypeNodes ==
  {UnionNode(<<a>> \o rest) :
     a \in SimpleTypeNodes, rest \in SeqsOf(RestMembers, 1, MaxMembers - 1)}
IntersectionTypeNodes ==
  {IntersectionNode(<<a>> \o rest) :
     a \in SimpleTypeNodes, rest \in SeqsOf(RestMembers, 1, MaxMembers - 1)}

TypeNodes == SimpleTypeNodes \cup UnionTypeNodes \cup IntersectionTypeNodes

\* names of declared types, as a plain named shape carries them
NamedBaseTypes ==
  {"string", "Boolean", "Date", "User", "StringArray", "Constructor", "void", "any"}

\* shapes built directly: what the semantic path and callers can construct
BuiltTypeInfos ==
  {PlainTypeInfo(n, n) : n \in NamedBaseTypes}
  \cup {Spread(PlainTypeInfo(n \o "<" \o JoinStrings(a, ", ") \o ">", n),
               [isGeneric |-> TRUE, genericTypes |-> a]) :
          n \in GenericNames, a \in SeqsOf({"number", "User"}, 0, MaxTypeArgs)}
  \cup {Spread(PlainTypeInfo("never", "never"), [isNever |-> TRUE]),
        Spread(PlainTypeInfo("null", "null"), [isNull |-> TRUE]),
        Spread(PlainTypeInfo("undefined", "undefined"), [isUndefined |-> TRUE]),
        Spread(PlainTypeInfo("User", "User"), [resolvedType |-> "interface User { id: number }"])}

\* what sets a variant apart: the flag and the field its case reads
VariantMarkers ==
  {[isNever |-> TRUE], [isNull |-> TRUE], [isUndefined |-> TRUE],
   [isLiteral |-> TRUE, literalValue |-> StringValue("a")],
   [isUnion |-> TRUE, unionTypes |-> <<"string", "number">>],
   [isIntersection |-> TRUE, intersectionTypes |-> <<"number", "User">>],
   [isTuple |-> TRUE, tupleTypes |-> <<PlainTypeInfo("boolean", "boolean")>>],
   [isGeneric |-> TRUE, genericTypes |-> <<"Date">>]}

\* shapes built directly that carry one or two variant markers
MarkedTypeInfos ==
  {Spread(Spread(PlainTypeInfo(n, n), m1), m2) :
     n \in {"Map", "User"}, m1 \in VariantMarkers, m2 \in VariantMarkers}

NoMock == [kind |-> "none", text |-> ""]

ResolverIdle ==
  /\ program = undefined
  /\ checker = undefined
  /\ disposed = FALSE
  /\ resolveOut = [kind |-> "none"]

MockIdle ==
  /\ mockNode = NoTypeNode
  /\ mockIn = PlainTypeInfo("any", "any")
  /\ mockOut = NoMock

MergeIdle ==
  /\ projectConfig = EmptyConfig
  /\ cliConfig = EmptyConfig
  /\ mergeOut = [kind |-> "none"]

LoadIdle ==
  /\ projectRoot = undefined
  /\ configFiles = [i \in 1..Len(CONFIG_FILES) |-> MissingFile]
  /\ loadIndex = 1
  /\ loadOut = [kind |-> "none"]

\* no file at the path
NoFile ==
  [kind |-> "none", readable |-> FALSE, padding |-> "", tree |-> SourceFile(<<>>),
   errors |-> <<>>]

ParseIdle ==
  /\ filePath = ""
  /\ fileEntry = NoFile
  /\ typeResolver = "null"
  /\ parsePc = "start"
  /\ parseSource = SourceFile(<<>>)
  /\ functions = <<>>
  /\ parseOut = [kind |-> "none"]
  /\ checkerFailAt = "none"

RootIdle ==
  /\ cwd = 0
  /\ packageJson = {}
  /\ realPath = <<>>
  /\ currentDir = 0
  /\ depth = 0
  /\ visited = {}
  /\ examined = <<>>
  /\ rootPc = "idle"
  /\ rootOut = [kind |-> "none"]

FlowIdle ==
  /\ sourceFile = SourceFile(<<>>)
  /\ functionName = ""
  /\ flowStack = <<>>
  /\ analysis = NewAnalysis
  /\ flowPc = "idle"

----------------------------------------------------------------------------
(* TypeResolver: the instance, dispose, isDisposed and resolveType.        *)

\* what the compiler API can answer for an annotation
BaseType ==
  [flags |-> {}, isUnion |-> FALSE, isIntersection |-> FALSE, types |-> <<>>,
   isTuple |-> FALSE, aliasSymbol |-> FALSE, display |-> "string"]
\* a falsy answer of getTypeFromTypeNode
NoType == Spread(BaseType, [display |-> undefined])

InterfaceSymbol(name, text) ==
  [name |-> name, declarations |-> <<[kind |-> "InterfaceDeclaration", text |-> text]>>]

SemanticTypes ==
  {BaseType,
   Spread(BaseType, [flags |-> {"Never"}, display |-> "never"]),
   Spread(BaseType, [flags |-> {"Null"}, display |-> "null"]),
   Spread(BaseType, [flags |-> {"Undefined"}, display |-> "undefined"]),
   Spread(BaseType, [isUnion |-> TRUE, types |-> <<"\"a\"", "number">>,
                     display |-> "number | \"a\""]),
   Spread(BaseType, [isIntersection |-> TRUE, types |-> <<"User", "Admin">>,
                     display |-> "User & Admin"]),
   Spread(BaseType, [flags |-> {"StringLiteral"}, value |-> StringValue("a"),
                     display |-> "\"a\""]),
   Spread(BaseType, [flags |-> {"BooleanLiteral"}, display |-> "true"]),
   Spread(BaseType, [isTuple |-> TRUE, elementTypes |-> <<"number", "string">>,
                     display |-> "[number, string]"]),
   Spread(BaseType, [isTuple |-> TRUE, typeArguments |-> <<"number">>,
                     display |-> "[number]"]),
   Spread(BaseType, [symbol |-> [name |-> "Box", declarations |-> <<>>],
                     aliasSymbol |-> TRUE, aliasTypeArguments |-> <<"number">>,
                     display |-> "Box<number>"]),
   Spread(BaseType, [symbol |-> [name |-> "Array", declarations |-> <<>>],
                     typeArguments |-> <<"number">>, display |-> "number[]"]),
   Spread(BaseType, [symbol |-> InterfaceSymbol("User", "interface User { id: number }"),
                     display |-> "User"]),
   Spread(BaseType, [symbol |-> InterfaceSymbol("Big", Repeat("interface ", 21)),
                     display |-> "Big"]),
   Spread(BaseType, [symbol |-> [name |-> "Service",
                                 declarations |-> <<[kind |-> "ClassDeclaration",
                                                     text |-> "class Service {}"]>>],
                     display |-> "Service"])}

\* the compiler API calls of the semantic path that can throw
FailPoints ==
  {"none", "getTypeFromTypeNode", "getFlags", "isUnion", "isIntersection",
   "isTupleType", "getSymbol", "typeToString", "getDeclarations"}

\* the annotations resolveType is called with
ResolverTypeNodes ==
  {KeywordType("string"), TypeRef("User"), StringLiteralType("a"),
   GenericRef("Array", <<KeywordType("number")>>),
   TupleNode(<<KeywordType("number"), StringLiteralType("a")>>),
   UnionNode(<<StringLiteralType("a"), KeywordType("number")>>),
   IntersectionNode(<<TypeRef("User"), TypeRef("Admin")>>)}

DisposedError == "TypeResolver has been disposed"

\* TypeResolver.isDisposed
isDisposed == disposed

\* resolveType with the absent-annotation test ahead of the disposed test:
\* a disposed resolver would then still answer `any` for an absent annotation
resolveType_AnyBeforeDisposed(typeNode, type, failAt) ==
  IF typeNode = NoTypeNode THEN
    [kind |-> "returned", value |-> PlainTypeInfo("any", "any")]
  ELSE IF disposed THEN [kind |-> "threw", error |-> DisposedError]
  ELSE IF checker = undefined THEN
    [kind |-> "returned", value |-> fallbackTypeInfo(typeNode)]
  ELSE IF failAt = "getTypeFromTypeNode" \/ type = NoType THEN
    [kind |-> "returned", value |-> fallbackTypeInfo(typeNode)]
  ELSE [kind |-> "returned", value |-> typeToTypeInfo(type, typeNode.text, failAt)]

\* resolveType without the try/catch around getTypeFromTypeNode: a throw of
\* the compiler API would then leave resolveType
resolveType_NoCatch(typeNode, type, failAt) ==
  IF disposed THEN [kind |-> "threw", error |-> DisposedError]
  ELSE IF typeNode = NoTypeNode THEN
    [kind |-> "returned", value |-> PlainTypeInfo("any", "any")]
  ELSE IF checker = undefined THEN
    [kind |-> "returned", value |-> fallbackTypeInfo(typeNode)]
  ELSE IF failAt = "getTypeFromTypeNode" THEN
    [kind |-> "threw", error |-> "getTypeFromTypeNode failed"]
  ELSE IF type = NoType THEN
    [kind |-> "returned", value |-> fallbackTypeInfo(typeNode)]
  ELSE [kind |-> "returned", value |-> typeToTypeInfo(type, typeNode.text, failAt)]

\* TypeResolver.resolveType: the outcome of a call, given what the compiler
\* API answers (type) and which of its calls throws (failAt)
resolveType(typeNode, type, failAt) ==
  IF disposed THEN [kind |-> "threw", error |-> DisposedError]
  ELSE IF typeNode = NoTypeNode THEN
    [kind |-> "returned", value |-> PlainTypeInfo("any", "any")]
  ELSE IF checker = undefined THEN
    [kind |-> "returned", value |-> fallbackTypeInfo(typeNode)]
  ELSE IF failAt = "getTypeFromTypeNode" \/ type = NoType THEN
    [kind |-> "returned", value |-> fallbackTypeInfo(typeNode)]
  ELSE [kind |-> "returned", value |-> typeToTypeInfo(type, typeNode.text, failAt)]

\* the constructor has run: a tsconfig was found and a checker built, or no
\* tsconfig was found, or building the checker threw after the program was set
InitResolver ==
  /\ RootIdle
  /\ MockIdle
  /\ FlowIdle
  /\ MergeIdle
  /\ LoadIdle
  /\ ParseIdle
  /\ \/ program = "program" /\ checker = "checker"
     \/ program = undefined /\ checker = undefined
     \/ program = "program" /\ checker = undefined
  /\ disposed = FALSE
  /\ resolveOut = [kind |-> "none"]

\* dispose with the checker reference left in place
Dispose_KeepsChecker ==
  /\ IF disposed
     THEN UNCHANGED <<program, checker, disposed>>
     ELSE /\ program' = undefined
          /\ checker' = checker
          /\ disposed' = TRUE
  /\ UNCHANGED resolveOut
  /\ UNCHANGED <<mockVars, flowVars, mergeVars, loadVars, parseVars, rootVars>>

\* TypeResolver.dispose
Dispose ==
  /\ IF disposed
     THEN UNCHANGED <<program, checker, disposed>>
     ELSE /\ program' = undefined
          /\ checker' = undefined
          /\ disposed' = TRUE
  /\ UNCHANGED resolveOut
  /\ UNCHANGED <<mockVars, flowVars, mergeVars, loadVars, parseVars, rootVars>>

\* a call of resolveType; resolveOut keeps the call and its outcome
ResolveTypeCall(typeNode, type, failAt) ==
  /\ resolveOut' =
       Spread(resolveType(typeNode, type, failAt),
              [typeNode |-> typeNode, failAt |-> failAt, disposedAtCall |-> disposed,
               checkerAtCall |-> checker])
  /\ UNCHANGED <<program, checker, disposed>>
  /\ UNCHANGED <<mockVars, flowVars, mergeVars, loadVars, parseVars, rootVars>>

ResolveType ==
  \E typeNode \in ResolverTypeNodes \cup {NoTypeNode} :
    IF disposed \/ typeNode = NoTypeNode \/ checker = undefined
    THEN ResolveTypeCall(typeNode, NoType, "none")
    ELSE \E type \in SemanticTypes \cup {NoType}, failAt \in FailPoints :
           ResolveTypeCall(typeNode, type, failAt)

NextResolver == Dispose \/ ResolveType

----------------------------------------------------------------------------
(* The extractor, parseFile (src/unnamed/part_004).  Of the declarations   *)
(* it is run on only parameters carry a type annotation, and none carries  *)
(* a decorator or a JSDoc comment: a return type is extractTypeInfo of an  *)
(* absent annotation (lines 519-521) and decorators and jsdoc are          *)
(* undefined.                                                              *)

\* ts.getModifiers(node)?.some(mod => mod.kind === kind) || false
hasModifier(node, kind) ==
  \E i \in 1..Len(Parts(node, "modifiers")) : node.modifiers[i].kind = kind

\* extractTypeInfo(undefined, sourceFile)
AnyTypeInfo == PlainTypeInfo("any", "any")

\* checker.getTypeFromTypeNode(typeNode): what the checker answers for an
\* annotation of a parsed file
getTypeFromTypeNode(typeNode) ==
  IF typeNode.kind = "UnionType" THEN
    Spread(BaseType, [isUnion |-> TRUE, types |-> NodeTexts(typeNode.types),
                      display |-> typeNode.text])
  ELSE IF typeNode.kind = "TupleType" THEN
    Spread(BaseType, [isTuple |-> TRUE, elementTypes |-> NodeTexts(typeNode.elements),
                      display |-> typeNode.text])
  ELSE IF typeNode.kind = "LiteralType" /\ typeNode.literal.kind = "StringLiteral" THEN
    Spread(BaseType, [flags |-> {"StringLiteral"},
                      value |-> StringValue(typeNode.literal.text),
                      display |-> "\"" \o typeNode.literal.text \o "\""])
  ELSE Spread(BaseType, [display |-> typeNode.text])

\* the compiler API calls that can throw while a file is parsed
ParseFailPoints == {"none", "getTypeFromTypeNode", "getFlags"}

\* typeResolver.resolveType(typeNode, sourceFile) on the module's resolver
ResolverAnswer(typeNode) ==
  resolveType(typeNode, getTypeFromTypeNode(typeNode), checkerFailAt)

\* extractTypeInfo without its syntactic part: an annotation the resolver
\* does not answer gets the shape of an absent annotation
extractTypeInfo_AnyWithoutResolver(typeNode) ==
  IF typeNode = NoTypeNode THEN AnyTypeInfo
  ELSE IF typeResolver # "null" /\ ResolverAnswer(typeNode).kind = "returned"
  THEN ResolverAnswer(typeNode).value
  ELSE AnyTypeInfo

RECURSIVE extractTypeInfo(_)
\* extractTypeInfo: the resolver's answer when there is a resolver and it
\* does not throw, otherwise the shape read off the annotation's grammar
extractTypeInfo(typeNode) ==
  IF typeNode = NoTypeNode THEN AnyTypeInfo
  ELSE IF typeResolver # "null" /\ ResolverAnswer(typeNode).kind = "returned"
  THEN ResolverAnswer(typeNode).value
  ELSE
    LET raw == typeNode.text IN
    IF typeNode.kind = "UnionType" THEN
      Spread(PlainTypeInfo(raw, typeNode.types[1].text),
             [isUnion |-> TRUE, unionTypes |-> NodeTexts(typeNode.types)])
    ELSE IF typeNode.kind = "IntersectionType" THEN
      Spread(PlainTypeInfo(raw, typeNode.types[1].text),
             [isIntersection |-> TRUE, intersectionTypes |-> NodeTexts(typeNode.types)])
    ELSE IF typeNode.kind = "TupleType" THEN
      Spread(PlainTypeInfo(raw, "tuple"),
             [isTuple |-> TRUE,
              tupleTypes |-> [i \in 1..Len(typeNode.elements) |->
                                extractTypeInfo(typeNode.elements[i])]])
    ELSE IF typeNode.kind = "LiteralType" THEN
      LET literal == typeNode.literal IN
      IF literal.kind = "StringLiteral" THEN
        Spread(PlainTypeInfo(raw, "string"),
               [isLiteral |-> TRUE, literalValue |-> StringValue(literal.text)])
      ELSE IF literal.kind = "NumericLiteral" THEN
        Spread(PlainTypeInfo(raw, "number"),
               [isLiteral |-> TRUE, literalValue |-> NumberValue(ParseNat(literal.text))])
      ELSE IF literal.kind \in {"TrueKeyword", "FalseKeyword"} THEN
        Spread(PlainTypeInfo(raw, "boolean"),
               [isLiteral |-> TRUE,
                literalValue |-> BooleanValue(literal.kind = "TrueKeyword")])
      ELSE Spread(PlainTypeInfo(raw, "undefined"), [isLiteral |-> TRUE])
    ELSE IF typeNode.kind = "TypeReference" /\ "typeArguments" \in DOMAIN typeNode THEN
      Spread(PlainTypeInfo(raw, typeNode.typeName),
             [isGeneric |-> TRUE, genericTypes |-> NodeTexts(typeNode.typeArguments)])
    ELSE IF typeNode.kind = "TypeReference" /\ typeNode.typeName = "never" THEN
      Spread(PlainTypeInfo(raw, "never"), [isNever |-> TRUE])
    ELSE PlainTypeInfo(raw, raw)

\* what an extract function returns when it returns null
NullInfo == [null |-> TRUE]
\* if (func) functions.push(func)
PushIf(func) == IF func = NullInfo THEN <<>> ELSE <<func>>

\* elements.map(el => isBindingElement(el) ? el.name?.getText() || '' : '').filter(Boolean)
BindingTexts(pattern) ==
  LET texts == [i \in 1..Len(pattern.elements) |->
                  IF pattern.elements[i].kind = "BindingElement"
                  THEN pattern.elements[i].name.text ELSE ""]
      NonEmpty(t) == t # ""
  IN SelectSeq(texts, NonEmpty)

IsBindingPattern(name) == name.kind \in {"ObjectBindingPattern", "ArrayBindingPattern"}

\* one element of extractParams' map; defaultValue and destructuredProps
\* are undefined unless the parameter has an initializer / a pattern
extractParam(param) ==
  LET info == [name |-> param.name.text,
               type |-> extractTypeInfo(IF "type" \in DOMAIN param THEN param.type
                                        ELSE NoTypeNode),
               optional |-> "questionToken" \in DOMAIN param,
               isDestructured |-> IsBindingPattern(param.name),
               isRest |-> "dotDotDotToken" \in DOMAIN param]
      default == IF "initializer" \in DOMAIN param
                 THEN [defaultValue |-> param.initializer.text] ELSE <<>>
      props == IF IsBindingPattern(param.name)
               THEN [destructuredProps |-> BindingTexts(param.name)] ELSE <<>>
  IN Spread(Spread(info, default), props)

\* a differently-built extractParams: the parameters are listed last first
extractParams_Reversed(parameters) ==
  [i \in 1..Len(parameters) |-> extractParam(parameters[Len(parameters) + 1 - i])]

extractParams(parameters) == [i \in 1..Len(parameters) |-> extractParam(parameters[i])]

\* a differently-built extractFunctionInfo: a declaration without a name is not given up
extractFunctionInfo_KeepUnnamed(node, kind) ==
  [name |-> IF "name" \in DOMAIN node THEN node.name.text ELSE "",
   params |-> extractParams(node.parameters),
   returnType |-> AnyTypeInfo,
   isAsync |-> hasModifier(node, "AsyncKeyword"),
   isExported |-> hasModifier(node, "ExportKeyword"),
   isDefaultExport |-> hasModifier(node, "DefaultKeyword"),
   kind |-> kind]

\* className is the undefined visit passes down
extractFunctionInfo(node, kind) ==
  IF "name" \notin DOMAIN node \/ node.name.text = "" THEN NullInfo
  ELSE [name |-> node.name.text,
        params |-> extractParams(node.parameters),
        returnType |-> AnyTypeInfo,
        isAsync |-> hasModifier(node, "AsyncKeyword"),
        isExported |-> hasModifier(node, "ExportKeyword"),
        isDefaultExport |-> hasModifier(node, "DefaultKeyword"),
        kind |-> kind]

extractArrowFunctionInfo(decl, statement) ==
  [name |-> decl.name.text,
   params |-> extractParams(decl.initializer.parameters),
   returnType |-> AnyTypeInfo,
   isAsync |-> hasModifier(decl.initializer, "AsyncKeyword"),
   isExported |-> hasModifier(statement, "ExportKeyword"),
   isDefaultExport |-> FALSE,
   kind |-> "arrow"]

extractFunctionExpressionInfo(decl, statement) ==
  [name |-> decl.name.text,
   params |-> extractParams(decl.initializer.parameters),
   returnType |-> AnyTypeInfo,
   isAsync |-> hasModifier(decl.initializer, "AsyncKeyword"),
   isExported |-> hasModifier(statement, "ExportKeyword"),
   isDefaultExport |-> FALSE,
   kind |-> "function"]

\* the function a property holds: the method itself, or the arrow function
\* or function expression a property assignment is initialized with
PropertyFunction(prop) ==
  IF prop.kind = "MethodDeclaration" THEN <<prop>>
  ELSE IF prop.kind = "PropertyAssignment"
          /\ prop.initializer.kind \in {"ArrowFunction", "FunctionExpression"}
  THEN <<prop.initializer>>
  ELSE <<>>

extractObjectMethodInfo(prop, objName, statement) ==
  IF PropertyFunction(prop) = <<>> \/ prop.name.text = "" THEN NullInfo
  ELSE [name |-> objName \o "." \o prop.name.text,
        params |-> extractParams(Head(PropertyFunction(prop)).parameters),
        returnType |-> AnyTypeInfo,
        isAsync |-> hasModifier(Head(PropertyFunction(prop)), "AsyncKeyword"),
        isExported |-> hasModifier(statement, "ExportKeyword"),
        isDefaultExport |-> FALSE,
        kind |-> "method",
        className |-> objName]

\* getAccessModifier(node): undefined without private / protected / public
AccessModifier(node) ==
  IF hasModifier(node, "PrivateKeyword") THEN [accessModifier |-> "private"]
  ELSE IF hasModifier(node, "ProtectedKeyword") THEN [accessModifier |-> "protected"]
  ELSE IF hasModifier(node, "PublicKeyword") THEN [accessModifier |-> "public"]
  ELSE <<>>

extractMethodInfo(node, className) ==
  LET isConstructor == node.kind = "Constructor"
      name == IF isConstructor THEN "constructor" ELSE node.name.text
  IN IF name = "" THEN NullInfo
     ELSE Spread([name |-> name,
                  params |-> extractParams(node.parameters),
                  returnType |-> IF isConstructor THEN PlainTypeInfo(className, className)
                                 ELSE AnyTypeInfo,
                  isAsync |-> hasModifier(node, "AsyncKeyword"),
                  isExported |-> TRUE,
                  isDefaultExport |-> FALSE,
                  kind |-> IF hasModifier(node, "StaticKeyword") THEN "static"
                           ELSE IF isConstructor THEN "constructor" ELSE "method",
                  className |-> className,
                  isStatic |-> hasModifier(node, "StaticKeyword")],
                 AccessModifier(node))

extractGetterInfo(node, className) ==
  IF node.name.text = "" THEN NullInfo
  ELSE Spread([name |-> node.name.text,
               params |-> <<>>,
               returnType |-> AnyTypeInfo,
               isAsync |-> FALSE,
               isExported |-> TRUE,
               isDefaultExport |-> FALSE,
               kind |-> IF hasModifier(node, "StaticKeyword") THEN "static" ELSE "getter",
               className |-> className,
               isStatic |-> hasModifier(node, "StaticKeyword")],
              AccessModifier(node))

extractSetterInfo(node, className) ==
  IF node.name.text = "" THEN NullInfo
  ELSE Spread([name |-> node.name.text,
               params |-> extractParams(node.parameters),
               returnType |-> PlainTypeInfo("void", "void"),
               isAsync |-> FALSE,
               isExported |-> TRUE,
               isDefaultExport |-> FALSE,
               kind |-> IF hasModifier(node, "StaticKeyword") THEN "static" ELSE "setter",
               className |-> className,
               isStatic |-> hasModifier(node, "StaticKeyword")],
              AccessModifier(node))

extractDefaultExportFunction(node) ==
  [name |-> IF "name" \in DOMAIN node /\ node.name.text # "" THEN node.name.text ELSE "default",
   params |-> extractParams(node.parameters),
   returnType |-> AnyTypeInfo,
   isAsync |-> hasModifier(node, "AsyncKeyword"),
   isExported |-> TRUE,
   isDefaultExport |-> TRUE,
   kind |-> "function"]

extractDefaultExportArrowFunction(node) ==
  [name |-> "default",
   params |-> extractParams(node.parameters),
   returnType |-> AnyTypeInfo,
   isAsync |-> hasModifier(node, "AsyncKeyword"),
   isExported |-> TRUE,
   isDefaultExport |-> TRUE,
   kind |-> "arrow"]

\* visit, rule 1: a function declaration
functionRecords(node) ==
  IF node.kind = "FunctionDeclaration" THEN PushIf(extractFunctionInfo(node, "function"))
  ELSE <<>>

HasInitializer(decl, kinds) == "initializer" \in DOMAIN decl /\ decl.initializer.kind \in kinds

\* visit, rule 2: the arrow functions and function expressions a variable statement binds
variableRecords(node) ==
  IF node.kind # "VariableStatement" THEN <<>>
  ELSE LET decls == node.declarationList.declarations
       IN ConcatAll([i \in 1..Len(decls) |->
            (IF HasInitializer(decls[i], {"ArrowFunction"})
             THEN PushIf(extractArrowFunctionInfo(decls[i], node)) ELSE <<>>)
            \o (IF HasInitializer(decls[i], {"FunctionExpression"})
                THEN PushIf(extractFunctionExpressionInfo(decls[i], node)) ELSE <<>>)])

\* the inner loop of rule 3: the properties of one object literal
propertyRecords(decl, node) ==
  LET props == decl.initializer.properties
  IN ConcatAll([j \in 1..Len(props) |->
       IF props[j].kind \in {"MethodDeclaration", "PropertyAssignment"}
       THEN PushIf(extractObjectMethodInfo(props[j], decl.name.text, node)) ELSE <<>>])

\* visit, rule 3: the methods of the object literals a variable statement binds
objectRecords(node) ==
  IF node.kind # "VariableStatement" THEN <<>>
  ELSE LET decls == node.declarationList.declarations
       IN ConcatAll([i \in 1..Len(decls) |->
            IF HasInitializer(decls[i], {"ObjectLiteralExpression"})
            THEN propertyRecords(decls[i], node) ELSE <<>>])

\* node.name?.getText() || 'Anonymous'
ClassName(node) ==
  IF "name" \in DOMAIN node /\ node.name.text # "" THEN node.name.text ELSE "Anonymous"

\* visit, rule 4: the members of a class declaration
classRecords(node) ==
  IF node.kind # "ClassDeclaration" THEN <<>>
  ELSE ConcatAll([i \in 1..Len(node.members) |->
         IF node.members[i].kind \in {"MethodDeclaration", "Constructor"}
         THEN PushIf(extractMethodInfo(node.members[i], ClassName(node)))
         ELSE IF node.members[i].kind = "GetAccessor"
         THEN PushIf(extractGetterInfo(node.members[i], ClassName(node)))
         ELSE IF node.members[i].kind = "SetAccessor"
         THEN PushIf(extractSetterInfo(node.members[i], ClassName(node)))
         ELSE <<>>])

\* visit, rule 5: export default <function expression or arrow function>
exportRecords(node) ==
  IF node.kind # "ExportAssignment" THEN <<>>
  ELSE IF node.expression.kind = "FunctionExpression"
  THEN PushIf(extractDefaultExportFunction(node.expression))
  ELSE IF node.expression.kind = "ArrowFunction"
  THEN PushIf(extractDefaultExportArrowFunction(node.expression))
  ELSE <<>>

RECURSIVE visit(_)
\* what visit(node) pushes onto functions: the records of the five rules at
\* the node, then what its children push, in forEachChild order
visit(node) ==
  functionRecords(node) \o variableRecords(node) \o objectRecords(node)
  \o classRecords(node) \o exportRecords(node)
  \o ConcatAll([i \in 1..Len(ChildrenOf(node)) |-> visit(ChildrenOf(node)[i])])

ParseError(message) == [kind |-> "throw", error |-> "ParseError", message |-> message]

----------------------------------------------------------------------------
(* SpecMock: one call of generateMockValueForType on a shape that is       *)
(* either resolved syntactically from an annotation or built directly.     *)

InitMock ==
  /\ RootIdle
  /\ ResolverIdle
  /\ FlowIdle
  /\ MergeIdle
  /\ LoadIdle
  /\ ParseIdle
  /\ \/ /\ mockNode \in TypeNodes
        /\ mockIn = fallbackTypeInfo(mockNode)
     \/ /\ mockNode = NoTypeNode
        /\ mockIn \in BuiltTypeInfos \cup MarkedTypeInfos
  /\ mockOut = NoMock

CallGenerateMock ==
  /\ mockOut.kind = "none"
  /\ mockOut' = generateMockValueForType(mockIn)
  /\ UNCHANGED <<mockNode, mockIn>>
  /\ UNCHANGED <<resolverVars, flowVars, mergeVars, loadVars, parseVars, rootVars>>

----------------------------------------------------------------------------
(* The source files and target names analyzeBusinessFlow is run on.        *)

\* most case clauses of a switch, most if statements in a row
MaxClauses == 2
MaxIfs == 2

\* switch (code) { case 1: return 1; ... } with k clauses, the last of
\* two or more being the default clause
SwitchOf(k) ==
  Switch(Ident("code"),
         [i \in 1..k |->
            IF i = k /\ k > 1 THEN DefaultClause(<<Return(NumLit(0))>>)
            ELSE CaseClause(NumLit(i), <<Return(NumLit(i))>>)])

\* if (c<i>) { go(); }
PlainIf(i) ==
  If(Ident("c" \o NatToString(i)), Block(<<ExprStmt(Call(PropAccess(Ident("Math"), "abs"), <<>>))>>))

ThrowBadInput == Throw(New(Ident("Error"), <<StringLit("bad input")>>))

\* statements a body is built from
Statements ==
  {If(Ident("ok"), Block(<<Return(StringLit("yes"))>>)),
   IfElse(Ident("valid"), Block(<<ExprStmt(Call(Ident("save"), <<Ident("id")>>))>>),
          Block(<<ThrowBadInput>>)),
   If(Ident("deep"), Block(<<SwitchOf(MaxClauses)>>)),
   ForOf("item", Ident("items"), Block(<<SwitchOf(1)>>)),
   ForEver(Block(<<DoWhile(Block(<<>>), Ident("more"))>>)),
   While(Ident("more"), Block(<<If(Ident("stop"), Block(<<ReturnVoid>>))>>)),
   ThrowBadInput,
   Throw(New(Ident("TypeError"), <<DoubleQuoted("it's bad"), Ident("cause")>>)),
   Throw(NewBare(Ident("Failure"))),
   Throw(Ident("err")),
   Return(Conditional(Ident("flag"), NumLit(1), NumLit(2))),
   ReturnVoid,
   ExprStmt(Await(Call(PropAccess(Ident("api"), "getUser"), <<Ident("id")>>))),
   ExprStmt(Call(PropAccess(Ident("console"), "log"), <<Ident("id")>>)),
   ExprStmt(Call(PropAccess(Ident("items"), "map"), <<Arrow(Ident("item"))>>)),
   Try(Block(<<Return(Call(Ident("risky"), <<>>))>>),
       Catch(VarDeclTyped("e", KeywordType("unknown")), Block(<<>>))),
   TryFinally(Block(<<>>), Block(<<>>)),
   FuncDecl("run", <<>>, Block(<<If(Ident("inner"), Block(<<>>))>>))}
  \cup {SwitchOf(k) : k \in 0..MaxClauses}

\* the statements that may follow another one in a body
SecondStatements ==
  {SwitchOf(MaxClauses), If(Ident("late"), Block(<<>>)), ThrowBadInput}

\* bodies: N plain if statements in a row, one statement, or two
Bodies ==
  {[i \in 1..n |-> PlainIf(i)] : n \in 0..MaxIfs}
  \cup {<<s>> : s \in Statements}
  \cup {<<s, t>> : s \in Statements, t \in SecondStatements}

DeclaredNames == {"run", "load"}

\* a declaration with the given name and body, in each form
Declarations ==
  UNION {{FuncDecl(n, <<>>, Block(b)),
          FuncDecl(n, <<ParamInit("mode", Conditional(Ident("fast"), NumLit(1), NumLit(2)))>>,
                   Block(b)),
          Class("Service", <<Method(n, <<Param("id")>>, Block(b))>>),
          VarStmt(<<VarDeclInit(n, Arrow(Block(b)))>>)} :
         n \in DeclaredNames, b \in Bodies}

\* what may follow the first declaration of a file
LaterDeclarations ==
  {<<>>,
   <<FuncDecl("run", <<>>, Block(<<If(Ident("again"), Block(<<ReturnVoid>>))>>))>>,
   <<Class("Worker", <<Method("run", <<>>, Block(<<ThrowBadInput, SwitchOf(MaxClauses)>>))>>)>>,
   <<VarStmt(<<VarDeclInit("load", NumLit(5)),
               VarDeclInit("run", Arrow(Block(<<While(Ident("busy"), Block(<<>>))>>)))>>)>>,
   <<If(Ident("legacy"), Block(<<FuncDecl("load", <<>>, Block(<<ReturnVoid>>))>>))>>,
   <<If(Ident("legacy"),
        Block(<<FuncDecl("run", <<>>,
                         Block(<<If(Ident("again"), Block(<<Return(Ident("x"))>>)),
                                 ReturnVoid>>))>>))>>}

SourceFiles == {SourceFile(<<d>> \o later) : d \in Declarations, later \in LaterDeclarations}

FunctionNames == {"run"}

----------------------------------------------------------------------------
(* SpecFlow: one call of analyzeBusinessFlow.  The two recursive walks     *)
(* (findAndAnalyzeFunction and analyzeNode) run on an explicit stack of    *)
(* pending calls, the next call first; a step runs one call on one node.   *)

InitFlow ==
  /\ RootIdle
  /\ ResolverIdle
  /\ MockIdle
  /\ MergeIdle
  /\ LoadIdle
  /\ ParseIdle
  /\ sourceFile \in SourceFiles
  /\ functionName \in FunctionNames
  /\ analysis = NewAnalysis
  /\ flowStack = <<[mode |-> "find", path |-> <<>>]>>
  /\ flowPc = "running"

\* findAndAnalyzeFunction on a node that is not the target: visit its children
FindDescend ==
  /\ flowPc = "running" /\ flowStack # <<>>
  /\ LET frame == Head(flowStack) IN
     /\ frame.mode = "find"
     /\ ~isTargetFunction(NodeAt(sourceFile, frame.path), functionName)
     /\ flowStack' = ChildFrames("find", sourceFile, frame.path) \o Tail(flowStack)
  /\ UNCHANGED <<sourceFile, functionName, analysis, flowPc>>
  /\ UNCHANGED <<resolverVars, mockVars, mergeVars, loadVars, parseVars, rootVars>>

\* findAndAnalyzeFunction on a target: analyzeNode(node), then return
FindTarget ==
  /\ flowPc = "running" /\ flowStack # <<>>
  /\ LET frame == Head(flowStack) IN
     /\ frame.mode = "find"
     /\ isTargetFunction(NodeAt(sourceFile, frame.path), functionName)
     /\ flowStack' = <<[mode |-> "analyze", path |-> frame.path]>> \o Tail(flowStack)
  /\ UNCHANGED <<sourceFile, functionName, analysis, flowPc>>
  /\ UNCHANGED <<resolverVars, mockVars, mergeVars, loadVars, parseVars, rootVars>>

\* analyzeNode on one node: classify it, then visit its children
AnalyzeStep ==
  /\ flowPc = "running" /\ flowStack # <<>>
  /\ LET frame == Head(flowStack) IN
     /\ frame.mode = "analyze"
     /\ analysis' = analyzeNode(analysis, sourceFile, frame.path)
     /\ flowStack' = ChildFrames("analyze", sourceFile, frame.path) \o Tail(flowStack)
  /\ UNCHANGED <<sourceFile, functionName, flowPc>>
  /\ UNCHANGED <<resolverVars, mockVars, mergeVars, loadVars, parseVars, rootVars>>

\* findAndAnalyzeFunction(sourceFile) has returned: return analysis
ReturnAnalysis ==
  /\ flowPc = "running" /\ flowStack = <<>>
  /\ flowPc' = "done"
  /\ UNCHANGED <<sourceFile, functionName, flowStack, analysis>>
  /\ UNCHANGED <<resolverVars, mockVars, mergeVars, loadVars, parseVars, rootVars>>

NextFlow == FindDescend \/ FindTarget \/ AnalyzeStep \/ ReturnAnalysis

SpecFlow == InitFlow /\ [][NextFlow]_vars

NextMock == CallGenerateMock

SpecMock == InitMock /\ [][NextMock]_vars

SpecResolver == InitResolver /\ [][NextResolver]_vars

\* C1: after dispose(), every resolveType call raises the disposed error,
\* whatever its argument (an absent type node included); it returns no TypeInfo.
C1_DisposedRejects ==
  (resolveOut.kind # "none" /\ resolveOut.disposedAtCall) =>
    (resolveOut.kind = "threw" /\ resolveOut.error = DisposedError)

C1_Witness ==
  /\ disposed
  /\ resolveOut.kind = "threw"
  /\ resolveOut.disposedAtCall
  /\ resolveOut.typeNode = NoTypeNode

\* C2: on a resolver that is not disposed, resolveType does not raise; with or
\* without a checker, and whichever semantic step fails, it returns a TypeInfo
\* whose raw is the annotation text.
C2_NeverRaises ==
  (resolveOut.kind # "none" /\ ~resolveOut.disposedAtCall) =>
    /\ resolveOut.kind = "returned"
    /\ resolveOut.typeNode # NoTypeNode =>
         /\ resolveOut.value.raw = resolveOut.typeNode.text
         /\ {"raw", "baseType", "isUnion", "isGeneric", "isIntersection"}
              \subseteq DOMAIN resolveOut.value

C2_Witness ==
  /\ resolveOut.kind = "returned"
  /\ resolveOut.checkerAtCall # undefined
  /\ resolveOut.failAt = "isTupleType"
  /\ resolveOut.value = PlainTypeInfo(resolveOut.typeNode.text, resolveOut.typeNode.text)

\* C3: generateMockValueForType returns a string, without raising, for every
\* constructible TypeInfo, and the same string whenever it is called again
\* with an equal shape.
C3_PureAndTotal ==
  mockOut.kind # "none" =>
    /\ mockOut.kind = "string"
    /\ mockOut = generateMockValueForType(mockIn)

\* C4: a union shape [A, B, ...] gets exactly the text the shape of A alone
\* gets, whatever variant A is.
C4_UnionAsFirstMember ==
  (mockOut.kind # "none" /\ mockNode.kind = "UnionType") =>
    mockOut = generateMockValueForType(fallbackTypeInfo(mockNode.types[1]))

----------------------------------------------------------------------------
(* What the flow properties speak of: the declarations of the file that    *)
(* carry the requested name, in document order, and the target's nodes.    *)

RECURSIVE NodesUnder(_, _)
\* the paths of the node at path and of all its descendants, in document order
NodesUnder(root, path) ==
  <<path>> \o ConcatAll([i \in 1..Len(ChildrenOf(NodeAt(root, path))) |->
                           NodesUnder(root, path \o <<i>>)])

\* a declaration whose own name, or one of whose binding names, is name
Declares(node, name) ==
  \/ node.kind \in {"FunctionDeclaration", "MethodDeclaration"} /\ node.name.text = name
  \/ /\ node.kind = "VariableStatement"
     /\ \E i \in 1..Len(node.declarationList.declarations) :
          node.declarationList.declarations[i].name.text = name

DeclaresTargetAt(path) == Declares(NodeAt(sourceFile, path), functionName)

\* the declarations with the requested name, in document order
MatchingDeclarations == SelectSeq(NodesUnder(sourceFile, <<>>), DeclaresTargetAt)

\* the first of them, the target (only read when there is one)
TargetPath == Head(MatchingDeclarations)
\* the target and its descendants, in document order
TargetNodes == NodesUnder(sourceFile, TargetPath)

BindsTarget(d) == d.name.text = functionName
HoldsBlockFunction(d) ==
  /\ "initializer" \in DOMAIN d
  /\ d.initializer.kind = "ArrowFunction"
  /\ d.initializer.body.kind = "Block"

\* the bindings of the target's name that hold a block-bodied function (for
\* a variable statement)
TargetBindings ==
  SelectSeq(SelectSeq(NodeAt(sourceFile, TargetPath).declarationList.declarations,
                      BindsTarget),
            HoldsBlockFunction)

TargetHasBody ==
  \/ NodeAt(sourceFile, TargetPath).kind \in {"FunctionDeclaration", "MethodDeclaration"}
  \/ Len(TargetBindings) > 0

\* the statements of the target's body (read when the target has one)
TargetBody ==
  IF NodeAt(sourceFile, TargetPath).kind \in {"FunctionDeclaration", "MethodDeclaration"}
  THEN NodeAt(sourceFile, TargetPath).body.statements
  ELSE Head(TargetBindings).initializer.body.statements

RECURSIVE FactsAlong(_, _)
\* the analysis after the nodes at paths have been classified in turn
FactsAlong(a, paths) ==
  IF Len(paths) = 0 THEN a
  ELSE FactsAlong(analyzeNode(a, sourceFile, Head(paths)), Tail(paths))

IsKindAt(path, kinds) == NodeAt(sourceFile, path).kind \in kinds
IsIfAt(path) == IsKindAt(path, {"IfStatement"})
IsIfNode(node) == node.kind = "IfStatement"
\* a node that is scored and is no if statement
IsOtherScoredAt(path) ==
  \/ IsKindAt(path, {"SwitchStatement", "ConditionalExpression", "ForStatement",
                     "ForOfStatement", "ForInStatement", "WhileStatement", "DoStatement",
                     "ThrowStatement", "TryStatement"})
  \/ isIterationCall(NodeAt(sourceFile, path))

IsIfEntry(c) == c.type = "if"
IsThrowSite(e) == e.type = "throw"
IsThrowAt(path) == IsKindAt(path, {"ThrowStatement"})

Finished == flowPc = "done"
HasTarget == Len(MatchingDeclarations) > 0

\* C5: a target whose body is empty gets complexity 1, no conditions and no
\* loops.
C5_EmptyBody ==
  (Finished /\ HasTarget /\ TargetHasBody /\ TargetBody = <<>>) =>
    /\ analysis.complexity = 1
    /\ analysis.conditions = <<>>
    /\ analysis.loops = <<>>

\* the target's body is N if statements in a row, none nested in another, and
\* the target holds no other construct that is scored
TargetIsPlainIfs ==
  /\ TargetHasBody
  /\ Len(SelectSeq(TargetBody, IsIfNode)) = Len(TargetBody)
  /\ Len(SelectSeq(TargetNodes, IsIfAt)) = Len(TargetBody)
  /\ Len(SelectSeq(TargetNodes, IsOtherScoredAt)) = 0

\* C6: a target of N independent, non-nested if statements, without switch or
\* ternary, gets complexity 1 + N and exactly N conditions of type if.
C6_PlainIfs ==
  (Finished /\ HasTarget /\ TargetIsPlainIfs) =>
    /\ analysis.complexity = 1 + Len(TargetBody)
    /\ Len(SelectSeq(analysis.conditions, IsIfEntry)) = Len(TargetBody)

\* the node analyzeNode is about to classify is of one of these kinds
Classifying(kinds) ==
  /\ flowPc = "running"
  /\ flowStack # <<>>
  /\ Head(flowStack).mode = "analyze"
  /\ IsKindAt(Head(flowStack).path, kinds)

\* C7: classifying a switch statement with K clauses raises complexity by
\* exactly K, wherever the switch sits: first or later in the body, inside an
\* if or a loop, with zero, one or more clauses.
C7_SwitchAddsClauses ==
  [][Classifying({"SwitchStatement"}) =>
       analysis'.complexity =
         analysis.complexity
         + Len(NodeAt(sourceFile, Head(flowStack).path).caseBlock.clauses)]_vars

\* function run() { if (deep) { switch (code) { ... } } }: the if adds one, the
\* switch nested in it adds one per clause
C7_Witness ==
  /\ Finished
  /\ sourceFile.statements =
       <<FuncDecl("run", <<>>, Block(<<If(Ident("deep"), Block(<<SwitchOf(MaxClauses)>>))>>))>>
  /\ Len(analysis.conditions) = 2
  /\ analysis.conditions[1].type = "if"
  /\ analysis.conditions[2].type = "switch"
  /\ analysis.conditions[2].consequence = NatToString(MaxClauses) \o " cases"
  /\ analysis.complexity = 1 + 1 + MaxClauses

\* C8: when several declarations carry the requested name, the result holds
\* the facts of the first one in document order and nothing else.
C8_FirstMatchOnly ==
  (Finished /\ HasTarget) => analysis = FactsAlong(NewAnalysis, TargetNodes)

\* C9: when no declaration carries the requested name the result is the empty
\* one: complexity 1 and every list empty.
C9_NoMatchEmpty ==
  (Finished /\ ~HasTarget) =>
    /\ analysis.complexity = 1
    /\ analysis.conditions = <<>>
    /\ analysis.loops = <<>>
    /\ analysis.errorHandling = <<>>
    /\ analysis.externalCalls = <<>>
    /\ analysis.returnStatements = <<>>

\* class Service { load(id) { throw new Error('bad input'); switch ... } } asked
\* for `run`: the file declares functions with facts, none of them named run
C9_Witness ==
  /\ Finished
  /\ functionName = "run"
  /\ sourceFile.statements =
       <<Class("Service",
               <<Method("load", <<Param("id")>>,
                        Block(<<ThrowBadInput, SwitchOf(MaxClauses)>>))>>)>>
  /\ analysis = NewAnalysis

\* the characters of s that are no quote characters
IsQuoteFree(s) == \A i \in 1..Len(s) : SubSeq(s, i, i) \notin {"'", "\""}
RECURSIVE IsSubsequence(_, _)
IsSubsequence(s, t) ==
  IF Len(s) = 0 THEN TRUE
  ELSE IF Len(t) = 0 THEN FALSE
  ELSE IF SubSeq(s, 1, 1) = SubSeq(t, 1, 1)
  THEN IsSubsequence(SubSeq(s, 2, Len(s)), SubSeq(t, 2, Len(t)))
  ELSE IsSubsequence(s, SubSeq(t, 2, Len(t)))
QuoteCount(s) == Cardinality({i \in 1..Len(s) : SubSeq(s, i, i) \in {"'", "\""}})
\* m is text with its quotes stripped
IsUnquoted(m, text) ==
  /\ IsQuoteFree(m)
  /\ IsSubsequence(m, text)
  /\ Len(m) = Len(text) - QuoteCount(text)

\* the error site a throw statement is to yield
IsSiteOfThrow(site, path) ==
  LET node == NodeAt(sourceFile, path) IN
  /\ site.type = "throw"
  /\ site.line = LineOf(path)
  /\ node.expression.kind = "NewExpression" =>
       /\ site.errorType = node.expression.expression.text
       /\ ("arguments" \in DOMAIN node.expression /\ Len(node.expression.arguments) > 0) =>
            IsUnquoted(site.errorMessage, node.expression.arguments[1].text)
  /\ node.text = "throw new Error('bad input');" =>
       (site.errorType = "Error" /\ site.errorMessage = "bad input")

RECURSIVE AreSitesOfThrows(_, _)
\* the k-th site is the site of the k-th throw statement, for each of paths
AreSitesOfThrows(sites, paths) ==
  \/ Len(paths) = 0
  \/ /\ Len(sites) > 0
     /\ IsSiteOfThrow(Head(sites), Head(paths))
     /\ AreSitesOfThrows(Tail(sites), Tail(paths))

\* the throw statements of the target and the throw sites of the result, in order
TargetThrows == SelectSeq(TargetNodes, IsThrowAt)
ThrowSites == SelectSeq(analysis.errorHandling, IsThrowSite)

\* C10: every throw statement of the target yields exactly one error site of
\* type throw: classifying a throw statement adds one site and nothing else
\* adds one, and the k-th throw statement of the target has the k-th site,
\* with the constructed type name as errorType and the first argument's text,
\* quotes stripped, as message.
C10_ThrowSites ==
  /\ [][/\ Classifying({"ThrowStatement"}) =>
             /\ Len(analysis'.errorHandling) = Len(analysis.errorHandling) + 1
             /\ IsSiteOfThrow(analysis'.errorHandling[Len(analysis'.errorHandling)],
                              Head(flowStack).path)
        /\ ~Classifying({"ThrowStatement"}) =>
             SelectSeq(analysis'.errorHandling, IsThrowSite) = ThrowSites]_vars
  /\ []((Finished /\ HasTarget) => AreSitesOfThrows(ThrowSites, TargetThrows))

\* function run() { throw new Error('bad input'); }
C10_Witness ==
  /\ Finished
  /\ sourceFile.statements = <<FuncDecl("run", <<>>, Block(<<ThrowBadInput>>))>>
  /\ analysis.errorHandling =
       <<[type |-> "throw", errorType |-> "Error", errorMessage |-> "bad input", line |-> 1]>>

----------------------------------------------------------------------------
(* Array-like generic shapes in generateMockValueForType.                  *)

\* a shape the generic branch is entered with
IsGenericShape(type) ==
  /\ Truthy(type, "isGeneric") /\ Present(type, "genericTypes")
  /\ ~Truthy(type, "isNever") /\ ~Truthy(type, "isNull") /\ ~Truthy(type, "isUndefined")
  /\ ~Truthy(type, "isLiteral") /\ ~Truthy(type, "isUnion")
  /\ ~Truthy(type, "isIntersection") /\ ~Truthy(type, "isTuple")

\* C19: a generic shape with base name Array that carries an element type
\* (Array<number>) gets the empty-list text '[]'.
C19_ArrayIsEmptyList ==
  (/\ mockOut.kind # "none"
   /\ IsGenericShape(mockIn)
   /\ mockIn.baseType = "Array"
   /\ Len(mockIn.genericTypes) > 0) => mockOut = MockString("[]")

----------------------------------------------------------------------------
(* SpecMerge: one call of mergeConfigs on a project config, as loadConfig  *)
(* can return it, and the options of a command line.                       *)

OptionalBooleans == {UndefinedValue, BooleanValue(TRUE), BooleanValue(FALSE)}

ProjectConfigs ==
  {[framework |-> f, style |-> s, includeComments |-> c, generateMocks |-> m, testEach |-> e,
    outputPath |-> undefined, ignorePatterns |-> p] :
     f \in {undefined, "vitest"}, s \in {undefined, "strict"},
     c \in OptionalBooleans, m \in OptionalBooleans, e \in OptionalBooleans,
     p \in {UndefinedValue, ArrayValue(<<"dist">>)}}

\* "ava" and "fancy" are names mergeConfigs rejects
CliConfigs ==
  {[framework |-> f, style |-> s, includeComments |-> c, generateMocks |-> m, testEach |-> e,
    outputPath |-> x[1], ignorePatterns |-> x[2]] :
     f \in {undefined, "mocha", "ava"}, s \in {undefined, "smart", "fancy"},
     c \in OptionalBooleans, m \in OptionalBooleans, e \in OptionalBooleans,
     x \in {<<undefined, UndefinedValue>>, <<"out", ArrayValue(<<>>)>>}}

InitMerge ==
  /\ RootIdle
  /\ ResolverIdle
  /\ MockIdle
  /\ FlowIdle
  /\ LoadIdle
  /\ ParseIdle
  /\ projectConfig \in ProjectConfigs
  /\ cliConfig \in CliConfigs
  /\ mergeOut = [kind |-> "none"]

MergeConfigs ==
  /\ mergeOut.kind = "none"
  /\ mergeOut' = mergeConfigs(projectConfig, cliConfig)
  /\ UNCHANGED <<projectConfig, cliConfig>>
  /\ UNCHANGED <<resolverVars, mockVars, flowVars, loadVars, parseVars, rootVars>>

NextMerge == MergeConfigs

SpecMerge == InitMerge /\ [][NextMerge]_vars

----------------------------------------------------------------------------
(* SpecLoad: one call of loadConfig, one candidate file per step.          *)

\* the objects a config file can hold: valid ones and ones validateConfig rejects
FileConfigs ==
  {EmptyConfig,
   Spread(EmptyConfig, [framework |-> "vitest", includeComments |-> BooleanValue(FALSE)]),
   Spread(EmptyConfig, [framework |-> "jest"]),
   Spread(EmptyConfig, [framework |-> "ava"]),
   Spread(EmptyConfig, [generateMocks |-> StringValue("yes")])}

JsonFiles ==
  {ConfigFile(st, EmptyConfig) : st \in {"missing", "blank", "unreadable", "invalidJson", "nonObject"}}
  \cup {ConfigFile("object", c) : c \in FileConfigs}

\* a blank .js file is a module that exports {}
JsFiles ==
  {ConfigFile(st, EmptyConfig) : st \in {"missing", "blank", "loadFails", "nonObject"}}
  \cup {ConfigFile("object", c) : c \in FileConfigs}

FilesOf(configFile) == IF EndsWith(configFile, ".json") THEN JsonFiles ELSE JsFiles

\* projectRoot = undefined: no root was passed and findProjectRoot() fails,
\* so there is no directory the candidates could be in
InitLoad ==
  /\ RootIdle
  /\ ResolverIdle
  /\ MockIdle
  /\ FlowIdle
  /\ MergeIdle
  /\ ParseIdle
  /\ projectRoot \in {"/project", undefined}
  /\ configFiles \in [1..Len(CONFIG_FILES) -> JsonFiles \cup JsFiles]
  /\ \A i \in 1..Len(CONFIG_FILES) : configFiles[i] \in FilesOf(CONFIG_FILES[i])
  /\ projectRoot = undefined => \A i \in 1..Len(CONFIG_FILES) : configFiles[i] = MissingFile
  /\ loadIndex = 1
  /\ loadOut = [kind |-> "none"]

Loading == loadOut.kind = "none" /\ projectRoot # undefined /\ loadIndex <= Len(CONFIG_FILES)

\* lines 17-21 and 107-117: no usable root
LoadNoRoot ==
  /\ loadOut.kind = "none"
  /\ projectRoot = undefined
  /\ loadOut' = ConfigReturn(EmptyConfig)
  /\ UNCHANGED <<projectRoot, configFiles, loadIndex>>
  /\ UNCHANGED <<resolverVars, mockVars, flowVars, mergeVars, parseVars, rootVars>>

\* lines 26-28: the candidate does not exist
LoadSkipMissing ==
  /\ Loading
  /\ configFiles[loadIndex].state = "missing"
  /\ loadIndex' = loadIndex + 1
  /\ UNCHANGED <<projectRoot, configFiles, loadOut>>
  /\ UNCHANGED <<resolverVars, mockVars, flowVars, mergeVars, parseVars, rootVars>>

\* lines 31-54 and 97-105: a .json candidate that exists
LoadJson ==
  /\ Loading
  /\ EndsWith(CONFIG_FILES[loadIndex], ".json")
  /\ configFiles[loadIndex].state # "missing"
  /\ LET out == loadJsonConfig(configFiles[loadIndex], PathJoin(projectRoot, CONFIG_FILES[loadIndex]))
     IN IF out.kind = "continue"
        THEN loadIndex' = loadIndex + 1 /\ UNCHANGED loadOut
        ELSE loadOut' = out /\ UNCHANGED loadIndex
  /\ UNCHANGED <<projectRoot, configFiles>>
  /\ UNCHANGED <<resolverVars, mockVars, flowVars, mergeVars, parseVars, rootVars>>

\* lines 55-96: a .js candidate that exists
LoadJs ==
  /\ Loading
  /\ ~EndsWith(CONFIG_FILES[loadIndex], ".json")
  /\ EndsWith(CONFIG_FILES[loadIndex], ".js")
  /\ configFiles[loadIndex].state # "missing"
  /\ loadOut' = loadJsConfig(configFiles[loadIndex], PathJoin(projectRoot, CONFIG_FILES[loadIndex]))
  /\ UNCHANGED <<projectRoot, configFiles, loadIndex>>
  /\ UNCHANGED <<resolverVars, mockVars, flowVars, mergeVars, parseVars, rootVars>>

\* line 117: no candidate returned or raised
LoadReturnEmpty ==
  /\ loadOut.kind = "none"
  /\ projectRoot # undefined
  /\ loadIndex > Len(CONFIG_FILES)
  /\ loadOut' = ConfigReturn(EmptyConfig)
  /\ UNCHANGED <<projectRoot, configFiles, loadIndex>>
  /\ UNCHANGED <<resolverVars, mockVars, flowVars, mergeVars, parseVars, rootVars>>

NextLoad == LoadNoRoot \/ LoadSkipMissing \/ LoadJson \/ LoadJs \/ LoadReturnEmpty

SpecLoad == InitLoad /\ [][NextLoad]_vars

----------------------------------------------------------------------------
(* Properties of mergeConfigs and loadConfig.                              *)

\* the value a string option takes by the rule "CLI if defined, else project if defined, else default"
PickString(cli, project, default) ==
  IF cli # undefined THEN cli ELSE IF project # undefined THEN project ELSE default
PickBoolean(cli, project, default) ==
  IF cli.t # "undefined" THEN cli ELSE IF project.t # "undefined" THEN project ELSE BooleanValue(default)

\* C16: for framework, style, includeComments, generateMocks and testEach a
\* returning mergeConfigs gives the CLI value when it is defined, otherwise
\* the project value when it is defined, otherwise the default (jest, basic,
\* true, false, false); an explicit CLI false overrides a project true.
C16_MergePrecedence ==
  mergeOut.kind = "return" =>
    /\ mergeOut.config.framework = PickString(cliConfig.framework, projectConfig.framework, "jest")
    /\ mergeOut.config.style = PickString(cliConfig.style, projectConfig.style, "basic")
    /\ mergeOut.config.includeComments = PickBoolean(cliConfig.includeComments, projectConfig.includeComments, TRUE)
    /\ mergeOut.config.generateMocks = PickBoolean(cliConfig.generateMocks, projectConfig.generateMocks, FALSE)
    /\ mergeOut.config.testEach = PickBoolean(cliConfig.testEach, projectConfig.testEach, FALSE)
    /\ \A f \in {"includeComments", "generateMocks", "testEach"} :
         (cliConfig[f] = BooleanValue(FALSE) /\ projectConfig[f] = BooleanValue(TRUE))
           => mergeOut.config[f] = BooleanValue(FALSE)

C16_Witness ==
  /\ mergeOut.kind = "return"
  /\ cliConfig.generateMocks = BooleanValue(FALSE) /\ projectConfig.generateMocks = BooleanValue(TRUE)
  /\ mergeOut.config.generateMocks = BooleanValue(FALSE)
  /\ cliConfig.framework = undefined /\ projectConfig.framework = "vitest"
  /\ mergeOut.config.framework = "vitest"
  /\ cliConfig.testEach = UndefinedValue /\ projectConfig.testEach = UndefinedValue

\* the candidates that exist and are not empty, in the order of CONFIG_FILES
IsNonEmptyFile(file) == file.state # "missing" /\ file.state # "blank"
NonEmptyFiles == SelectSeq(configFiles, IsNonEmptyFile)
ExpectedConfig == IF Len(NonEmptyFiles) = 0 THEN EmptyConfig ELSE Head(NonEmptyFiles).config

\* C17: loadConfig returns the config of the first candidate, in the order
\* .testgenrc.json, .testgenrc.js, testgen.config.json, testgen.config.js,
\* that exists and is non-empty, whatever the later candidates hold, and an
\* empty object when no candidate exists.
C17_FirstNonEmptyFile ==
  loadOut.kind = "return" => loadOut.config = ExpectedConfig

\* the files before candidate k do not exist
FirstExisting(k) ==
  /\ configFiles[k].state # "missing"
  /\ \A i \in 1..(k - 1) : configFiles[i].state = "missing"

\* C18: when the first config file that exists holds invalid JSON,
\* loadConfig raises a ConfigError whose message starts with 'Invalid JSON
\* in config file'; it neither goes on to a later candidate nor returns.
C18_InvalidJsonRejects ==
  \A k \in 1..Len(CONFIG_FILES) :
    (FirstExisting(k) /\ configFiles[k].state = "invalidJson") =>
      /\ loadIndex <= k
      /\ loadOut.kind # "return"
      /\ loadOut.kind # "none" =>
           /\ loadOut.kind = "throw"
           /\ loadOut.error = "ConfigError"
           /\ StartsWith(loadOut.message, "Invalid JSON in config file")

C18_Witness ==
  /\ loadOut.kind = "throw"
  /\ FirstExisting(3)
  /\ configFiles[3].state = "invalidJson"
  /\ configFiles[4].state = "object"
  /\ configFiles[4].config.framework = "vitest"

----------------------------------------------------------------------------
(* SpecParse: one call of parseFile (src/unnamed/part_004, lines 22-172),  *)
(* one check per step.                                                     *)

IsSpace(c) == c \in {" ", "\n", "\t"}
RECURSIVE TrimStart(_)
TrimStart(s) ==
  IF Len(s) > 0 /\ IsSpace(SubSeq(s, 1, 1)) THEN TrimStart(SubSeq(s, 2, Len(s))) ELSE s
RECURSIVE TrimEnd(_)
TrimEnd(s) ==
  IF Len(s) > 0 /\ IsSpace(SubSeq(s, Len(s), Len(s)))
  THEN TrimEnd(SubSeq(s, 1, Len(s) - 1)) ELSE s
\* s.trim()
Trim(s) == TrimEnd(TrimStart(s))

\* most top-level statements of a parsed file
MaxStatements == 2

EmptyBlock == Block(<<>>)
NamePattern == ObjectBindingPattern(<<BindingElement(Ident("name")), BindingElement(Ident("age"))>>)

FunctionStatements ==
  {FuncDecl("add", <<Param("a"), Param("b")>>, EmptyBlock),
   WithModifiers(<<ExportKeyword>>, FuncDecl("add", <<Param("a"), Param("b")>>, EmptyBlock)),
   FuncDecl("greet", <<Param("name"), ParamOptional("title"), ParamInit("n", NumLit(1)),
                       ParamRest("rest")>>, EmptyBlock),
   FuncDecl("processUser", <<ParamPattern(NamePattern)>>, EmptyBlock),
   FuncDecl("pick", <<ParamPattern(ArrayBindingPattern(
                        <<BindingElement(Ident("first")), OmittedExpression,
                          BindingElement(Ident("third"))>>))>>, EmptyBlock),
   FuncDecl("rename", <<ParamPattern(ObjectBindingPattern(
                          <<BindingProperty("id", Ident("key")), BindingElement(Ident("age"))>>))>>,
            EmptyBlock),
   FuncDecl("nested", <<ParamPattern(ObjectBindingPattern(
                          <<BindingProperty("user", NamePattern)>>))>>, EmptyBlock),
   WithModifiers(<<ExportKeyword, DefaultKeyword>>, AnonFuncDecl(<<Param("a")>>, EmptyBlock)),
   FuncDecl("spread", <<Param("head"),
                        ParamRestPattern(ArrayBindingPattern(
                          <<BindingElement(Ident("first")), BindingElement(Ident("second"))>>))>>,
            EmptyBlock),
   FuncDecl("label", <<ParamTyped("id", UnionNode(<<StringLiteralType("a"),
                                                    KeywordType("number")>>)),
                       ParamTyped("pair", TupleNode(<<KeywordType("number"),
                                                      StringLiteralType("a")>>))>>,
            EmptyBlock),
   FuncDecl("outer", <<>>, Block(<<FuncDecl("inner", <<>>, EmptyBlock)>>))}

VariableStatements ==
  {VarStmt(<<VarDeclInit("obj", ObjLit(<<Method("m", <<>>, EmptyBlock),
                                         PropAssign("p", Arrow(EmptyBlock)),
                                         PropAssign("q", NumLit(1))>>)),
             VarDeclInit("f", ArrowWith(<<Param("x")>>, EmptyBlock))>>),
   VarStmt(<<VarDeclInit("f", Arrow(EmptyBlock)),
             VarDeclInit("obj", ObjLit(<<Method("m", <<>>, EmptyBlock)>>))>>),
   WithModifiers(<<ExportKeyword>>, VarStmt(<<VarDeclInit("g", FuncExpr(<<>>, EmptyBlock))>>)),
   VarStmt(<<VarDeclInit("n", NumLit(1))>>)}

ClassStatements ==
  {Class("C", <<Constructor(<<Param("v")>>, EmptyBlock),
                Method("run", <<>>, Block(<<VarStmt(<<VarDeclInit("h", Arrow(EmptyBlock))>>)>>)),
                WithModifiers(<<StaticKeyword>>, Method("make", <<>>, EmptyBlock))>>),
   Class("D", <<GetAccessor("x", EmptyBlock), SetAccessor("x", <<Param("v")>>, EmptyBlock)>>),
   WithModifiers(<<ExportKeyword, DefaultKeyword>>, AnonClass(<<Method("run", <<>>, EmptyBlock)>>))}

OtherStatements ==
  {ExportAssignment(ArrowWith(<<Param("a")>>, EmptyBlock)),
   ExportAssignment(FuncExpr(<<>>, EmptyBlock)),
   ExprStmt(Call(Ident("main"), <<>>))}

ParseStatements ==
  FunctionStatements \cup VariableStatements \cup ClassStatements \cup OtherStatements

\* the files createSourceFile can be given: at least one statement
ParseSources == {SourceFile(stmts) : stmts \in SeqsOf(ParseStatements, 1, MaxStatements)}

\* what can be at the path: nothing, a directory, a file that cannot be
\* read, or a file holding blank text or source text (after some white
\* space or none), which the compiler has diagnostics of category Error for or not
FileEntries ==
  {NoFile, [NoFile EXCEPT !.kind = "directory"], [NoFile EXCEPT !.kind = "file"]}
  \cup {[kind |-> "file", readable |-> TRUE, padding |-> p, tree |-> SourceFile(<<>>),
         errors |-> <<>>] : p \in {"", "\n  "}}
  \cup {[kind |-> "file", readable |-> TRUE, padding |-> p, tree |-> t, errors |-> e] :
          p \in {"", "\n  "}, t \in ParseSources, e \in {<<>>, <<"';' expected.">>}}

\* readFileSync(filePath, 'utf-8')
SourceCode(entry) == entry.padding \o entry.tree.text

\* typeResolver is a variable of the module: null when it is loaded, and
\* what an earlier call left there afterwards, a resolver that no call has
\* disposed (here one built with a checker)
InitParse ==
  /\ RootIdle
  /\ MockIdle
  /\ FlowIdle
  /\ MergeIdle
  /\ LoadIdle
  /\ filePath \in {"", "src/app.ts", "notes.txt"}
  /\ fileEntry \in FileEntries
  /\ filePath = "" => fileEntry = NoFile
  /\ typeResolver \in {"null", "earlier"}
  /\ IF typeResolver = "earlier"
     THEN program = "program" /\ checker = "checker"
     ELSE program = undefined /\ checker = undefined
  /\ disposed = FALSE
  /\ resolveOut = [kind |-> "none"]
  /\ checkerFailAt = "none"
  /\ parsePc = "start"
  /\ parseSource = SourceFile(<<>>)
  /\ functions = <<>>
  /\ parseOut = [kind |-> "none"]

\* lines 23-26
ParseValidatePath ==
  /\ parsePc = "start"
  /\ IF filePath = ""
     THEN parseOut' = ParseError("Invalid file path provided") /\ parsePc' = "done"
     ELSE parsePc' = "exists" /\ UNCHANGED parseOut
  /\ UNCHANGED <<filePath, fileEntry, typeResolver, checkerFailAt, parseSource, functions>>
  /\ UNCHANGED <<resolverVars, mockVars, flowVars, mergeVars, loadVars, rootVars>>

\* lines 28-31
ParseCheckExists ==
  /\ parsePc = "exists"
  /\ IF fileEntry.kind = "none"
     THEN parseOut' = ParseError("File not found: " \o filePath) /\ parsePc' = "done"
     ELSE parsePc' = "stat" /\ UNCHANGED parseOut
  /\ UNCHANGED <<filePath, fileEntry, typeResolver, checkerFailAt, parseSource, functions>>
  /\ UNCHANGED <<resolverVars, mockVars, flowVars, mergeVars, loadVars, rootVars>>

\* lines 33-37
ParseCheckIsFile ==
  /\ parsePc = "stat"
  /\ IF fileEntry.kind # "file"
     THEN parseOut' = ParseError("Path is not a file: " \o filePath) /\ parsePc' = "done"
     ELSE parsePc' = "read" /\ UNCHANGED parseOut
  /\ UNCHANGED <<filePath, fileEntry, typeResolver, checkerFailAt, parseSource, functions>>
  /\ UNCHANGED <<resolverVars, mockVars, flowVars, mergeVars, loadVars, rootVars>>

\* lines 39-67: read the file, return [] for blank text, create the source file
ParseRead ==
  /\ parsePc = "read"
  /\ IF ~fileEntry.readable
     THEN /\ parseOut' = ParseError("Failed to read file: EACCES: permission denied")
          /\ parsePc' = "done"
          /\ UNCHANGED parseSource
     ELSE IF Trim(SourceCode(fileEntry)) = ""
     THEN /\ parseOut' = [kind |-> "return", value |-> <<>>]
          /\ parsePc' = "done"
          /\ UNCHANGED parseSource
     ELSE /\ parseSource' = fileEntry.tree
          /\ parsePc' = "syntax"
          /\ UNCHANGED parseOut
  /\ UNCHANGED <<filePath, fileEntry, typeResolver, checkerFailAt, functions>>
  /\ UNCHANGED <<resolverVars, mockVars, flowVars, mergeVars, loadVars, rootVars>>

\* lines 69-90
ParseCheckSyntax ==
  /\ parsePc = "syntax"
  /\ IF Len(fileEntry.errors) > 0
     THEN /\ parseOut' = ParseError("TypeScript syntax errors found:\n"
                                    \o JoinStrings(fileEntry.errors, "\n"))
          /\ parsePc' = "done"
     ELSE parsePc' = "resolver" /\ UNCHANGED parseOut
  /\ UNCHANGED <<filePath, fileEntry, typeResolver, checkerFailAt, parseSource, functions>>
  /\ UNCHANGED <<resolverVars, mockVars, flowVars, mergeVars, loadVars, rootVars>>

\* lines 92-99: a new TypeResolver, built with a checker or without one
\* (program, checker and disposed are then the fields of that instance), or
\* null when creating it fails
ParseInitResolver ==
  /\ parsePc = "resolver"
  /\ \/ /\ typeResolver' = "created"
        /\ program' = "program" /\ checker' = "checker"
        /\ checkerFailAt' \in ParseFailPoints
     \/ /\ typeResolver' = "created"
        /\ program' = undefined /\ checker' = undefined
        /\ checkerFailAt' = "none"
     \/ /\ typeResolver' = "null"
        /\ program' = undefined /\ checker' = undefined
        /\ checkerFailAt' = "none"
  /\ disposed' = FALSE
  /\ parsePc' = "visit"
  /\ UNCHANGED <<filePath, fileEntry, parseSource, functions, parseOut, resolveOut>>
  /\ UNCHANGED <<mockVars, flowVars, mergeVars, loadVars, rootVars>>

\* lines 101-170: visit(sourceFile)
ParseVisit ==
  /\ parsePc = "visit"
  /\ functions' = visit(parseSource)
  /\ parsePc' = "return"
  /\ UNCHANGED <<filePath, fileEntry, typeResolver, checkerFailAt, parseSource, parseOut>>
  /\ UNCHANGED <<resolverVars, mockVars, flowVars, mergeVars, loadVars, rootVars>>

\* line 171
ParseReturn ==
  /\ parsePc = "return"
  /\ parseOut' = [kind |-> "return", value |-> functions]
  /\ parsePc' = "done"
  /\ UNCHANGED <<filePath, fileEntry, typeResolver, checkerFailAt, parseSource, functions>>
  /\ UNCHANGED <<resolverVars, mockVars, flowVars, mergeVars, loadVars, rootVars>>

NextParse ==
  \/ ParseValidatePath \/ ParseCheckExists \/ ParseCheckIsFile \/ ParseRead
  \/ ParseCheckSyntax \/ ParseInitResolver \/ ParseVisit \/ ParseReturn

SpecParse == InitParse /\ [][NextParse]_vars

----------------------------------------------------------------------------
(* Properties of parseFile.                                                *)

Returned == parseOut.kind = "return"

\* the node k levels above the node at path
Ancestor(root, path, k) == NodeAt(root, SubSeq(path, 1, Len(path) - k))
HasAncestor(root, path, k, kind) == Len(path) >= k /\ Ancestor(root, path, k).kind = kind

\* the record of the declaration that starts at path, if one starts there
RecordAt(root, path) ==
  LET node == NodeAt(root, path) IN
  IF node.kind = "FunctionDeclaration"
  THEN PushIf(extractFunctionInfo(node, "function"))
  ELSE IF node.kind = "VariableDeclaration" /\ HasAncestor(root, path, 2, "VariableStatement")
  THEN IF HasInitializer(node, {"ArrowFunction"})
       THEN PushIf(extractArrowFunctionInfo(node, Ancestor(root, path, 2)))
       ELSE IF HasInitializer(node, {"FunctionExpression"})
       THEN PushIf(extractFunctionExpressionInfo(node, Ancestor(root, path, 2)))
       ELSE <<>>
  ELSE IF /\ node.kind \in {"MethodDeclaration", "PropertyAssignment"}
          /\ HasAncestor(root, path, 1, "ObjectLiteralExpression")
          /\ HasAncestor(root, path, 2, "VariableDeclaration")
          /\ HasAncestor(root, path, 4, "VariableStatement")
  THEN PushIf(extractObjectMethodInfo(node, Ancestor(root, path, 2).name.text,
                                      Ancestor(root, path, 4)))
  ELSE IF HasAncestor(root, path, 1, "ClassDeclaration")
  THEN IF node.kind \in {"MethodDeclaration", "Constructor"}
       THEN PushIf(extractMethodInfo(node, ClassName(Ancestor(root, path, 1))))
       ELSE IF node.kind = "GetAccessor"
       THEN PushIf(extractGetterInfo(node, ClassName(Ancestor(root, path, 1))))
       ELSE IF node.kind = "SetAccessor"
       THEN PushIf(extractSetterInfo(node, ClassName(Ancestor(root, path, 1))))
       ELSE <<>>
  ELSE exportRecords(node)

RECURSIVE RecordsAlong(_, _)
RecordsAlong(root, paths) ==
  IF Len(paths) = 0 THEN <<>>
  ELSE RecordAt(root, Head(paths)) \o RecordsAlong(root, Tail(paths))

\* the records of a file's declarations, ordered by where each declaration starts
DocumentOrderRecords(root) == RecordsAlong(root, NodesUnder(root, <<>>))

\* C11: parseFile returns its records in document order: a declaration that
\* starts earlier in the source text comes earlier in the returned list,
\* also when one variable statement binds an object literal with methods
\* and, later, an arrow function.
C11_DocumentOrder ==
  Returned => parseOut.value = DocumentOrderRecords(fileEntry.tree)

\* the file holds one statement, a named function declaration, and no other declaration
IsDeclarationKind(kind) ==
  kind \in {"FunctionDeclaration", "VariableStatement", "ClassDeclaration", "ExportAssignment"}
DeclarationCount(root) ==
  LET IsDeclarationAt(path) == IsDeclarationKind(NodeAt(root, path).kind)
  IN Len(SelectSeq(NodesUnder(root, <<>>), IsDeclarationAt))
OneFunctionDeclaration(root) ==
  /\ Len(root.statements) = 1
  /\ root.statements[1].kind = "FunctionDeclaration"
  /\ "name" \in DOMAIN root.statements[1]
  /\ DeclarationCount(root) = 1

\* C12: a file holding one standalone function declaration yields exactly
\* one record: its name is the declared name, its params are the
\* parameters in declaration order with their names, its kind is function,
\* and isExported is true exactly when the declaration has the export modifier.
C12_OneFunctionDeclaration ==
  (Returned /\ Trim(SourceCode(fileEntry)) # "" /\ OneFunctionDeclaration(fileEntry.tree)) =>
    LET decl == fileEntry.tree.statements[1] IN
    /\ Len(parseOut.value) = 1
    /\ parseOut.value[1].name = decl.name.text
    /\ Len(parseOut.value[1].params) = Len(decl.parameters)
    /\ \A i \in 1..Len(decl.parameters) :
         parseOut.value[1].params[i].name = decl.parameters[i].name.text
    /\ parseOut.value[1].kind = "function"
    /\ parseOut.value[1].isExported
         = (\E i \in 1..Len(Parts(decl, "modifiers")) : decl.modifiers[i] = ExportKeyword)

C12_Witness ==
  /\ Returned
  /\ fileEntry.tree.text = "export function add(a, b) {}"
  /\ Len(parseOut.value) = 1
  /\ parseOut.value[1].isExported
  /\ parseOut.value[1].params[2].name = "b"

RECURSIVE BoundNames(_)
\* the names a binding pattern binds, in source order
BoundNames(pattern) ==
  ConcatAll([i \in 1..Len(pattern.elements) |->
    IF pattern.elements[i].kind # "BindingElement" THEN <<>>
    ELSE IF pattern.elements[i].name.kind = "Identifier" THEN <<pattern.elements[i].name.text>>
    ELSE BoundNames(pattern.elements[i].name)])

\* C13: for an object- or array-destructured parameter the record has
\* isDestructured true and destructuredProps lists the bound names in
\* source order, each exactly once.
C13_DestructuredProps ==
  (Returned /\ Trim(SourceCode(fileEntry)) # "" /\ OneFunctionDeclaration(fileEntry.tree)) =>
    LET decl == fileEntry.tree.statements[1] IN
    \A i \in 1..Len(decl.parameters) :
      IsBindingPattern(decl.parameters[i].name) =>
        /\ Len(parseOut.value) = 1
        /\ parseOut.value[1].params[i].isDestructured
        /\ "destructuredProps" \in DOMAIN parseOut.value[1].params[i]
        /\ parseOut.value[1].params[i].destructuredProps = BoundNames(decl.parameters[i].name)

RECURSIVE LastIndexOf(_, _)
\* s.lastIndexOf(c) for a character c, counted from 1; 0 when s lacks c
LastIndexOf(s, c) ==
  IF Len(s) = 0 THEN 0
  ELSE IF SubSeq(s, Len(s), Len(s)) = c THEN Len(s)
  ELSE LastIndexOf(SubSeq(s, 1, Len(s) - 1), c)

\* path.extname(p) of a path whose last segment does not start with a dot
ExtName(p) ==
  IF LastIndexOf(p, ".") > LastIndexOf(p, "/") + 1
  THEN SubSeq(p, LastIndexOf(p, "."), Len(p)) ELSE ""

SupportedExtensions == {".ts", ".tsx", ".js", ".jsx"}

\* the first check, in the documented order, that the call's input fails
FirstFailingCheck ==
  IF filePath = "" THEN "invalid path"
  ELSE IF fileEntry.kind = "none" THEN "file not found"
  ELSE IF fileEntry.kind # "file" THEN "not a file"
  ELSE IF ToLowerCase(ExtName(filePath)) \notin SupportedExtensions THEN "unsupported extension"
  ELSE IF ~fileEntry.readable THEN "read failure"
  ELSE IF Len(fileEntry.errors) > 0 THEN "syntax errors"
  ELSE "none"

\* how the message of each check's ParseError starts
CheckMessage(check) ==
  CASE check = "invalid path" -> "Invalid file path provided"
    [] check = "file not found" -> "File not found"
    [] check = "not a file" -> "Path is not a file"
    [] check = "unsupported extension" -> "Unsupported file extension"
    [] check = "read failure" -> "Failed to read file"
    [] check = "syntax errors" -> "TypeScript syntax errors found"

\* C14: parseFile ends with a record list or with one ParseError.  The
\* checks run in the order invalid path, file not found, not a file,
\* unsupported extension, read failure, syntax errors; the first failing
\* check raises, and then no resolver is created and no declaration is
\* traversed.
C14_ChecksInOrder ==
  parsePc = "done" =>
    /\ parseOut.kind \in {"return", "throw"}
    /\ parseOut.kind = "throw" =>
         /\ parseOut.error = "ParseError"
         /\ typeResolver # "created"
         /\ functions = <<>>
    /\ IF FirstFailingCheck = "none" THEN parseOut.kind = "return"
       ELSE /\ parseOut.kind = "throw"
            /\ StartsWith(parseOut.message, CheckMessage(FirstFailingCheck))

\* a statement that is a function declaration without a name
IsUnnamedDeclaration(stmt) == stmt.kind = "FunctionDeclaration" /\ "name" \notin DOMAIN stmt
IsOtherStatement(stmt) == ~IsUnnamedDeclaration(stmt)
HasUnnamedDeclaration(root) ==
  \E i \in 1..Len(root.statements) : IsUnnamedDeclaration(root.statements[i])
\* the file without its unnamed declarations
WithoutUnnamed(root) == SourceFile(SelectSeq(root.statements, IsOtherStatement))

\* the two lists hold the same records, each as many times
SameRecords(a, b) ==
  /\ Len(a) = Len(b)
  /\ \A i \in 1..Len(a) :
       LET IsIt(r) == r = a[i] IN Len(SelectSeq(a, IsIt)) = Len(SelectSeq(b, IsIt))

\* C15: a declaration whose name cannot be determined produces no record
\* and does not abort extraction: the records returned are those of every
\* other declaration of the file, before and after it.
C15_UnnamedSkipped ==
  (parsePc = "done" /\ Trim(SourceCode(fileEntry)) # "" /\ Len(fileEntry.errors) = 0
   /\ fileEntry.readable /\ HasUnnamedDeclaration(fileEntry.tree)) =>
    /\ Returned
    /\ \A i \in 1..Len(parseOut.value) : parseOut.value[i].name # ""
    /\ SameRecords(parseOut.value, DocumentOrderRecords(WithoutUnnamed(fileEntry.tree)))

C15_Witness ==
  /\ Returned
  /\ Len(fileEntry.tree.statements) = 2
  /\ IsUnnamedDeclaration(fileEntry.tree.statements[1])
  /\ fileEntry.tree.statements[2].text = "class D { get x() {} set x(v) {} }"
  /\ Len(parseOut.value) = 2

----------------------------------------------------------------------------
(* The complexity score as a sum over the nodes of a subtree.              *)

IsTernaryAt(path) == IsKindAt(path, {"ConditionalExpression"})
IsForAt(path) == IsKindAt(path, {"ForStatement", "ForOfStatement", "ForInStatement"})
IsWhileAt(path) == IsKindAt(path, {"WhileStatement", "DoStatement"})
IsIterationCallAt(path) == isIterationCall(NodeAt(sourceFile, path))
IsTryAt(path) == IsKindAt(path, {"TryStatement"})

RECURSIVE ClauseSum(_)
\* the clause counts of the switch statements among paths, added up
ClauseSum(paths) ==
  IF Len(paths) = 0 THEN 0
  ELSE (IF IsKindAt(Head(paths), {"SwitchStatement"})
        THEN Len(NodeAt(sourceFile, Head(paths)).caseBlock.clauses) ELSE 0)
       + ClauseSum(Tail(paths))

\* 1 + ifs + switch clauses + ternaries + 2 * for loops + 2 * while loops
\* + iteration-method calls + throws + tries, over the nodes at paths
ScoreOf(paths) ==
  1 + Len(SelectSeq(paths, IsIfAt)) + ClauseSum(paths)
  + Len(SelectSeq(paths, IsTernaryAt))
  + 2 * Len(SelectSeq(paths, IsForAt)) + 2 * Len(SelectSeq(paths, IsWhileAt))
  + Len(SelectSeq(paths, IsIterationCallAt))
  + Len(SelectSeq(paths, IsThrowAt)) + Len(SelectSeq(paths, IsTryAt))

\* C21: for any target the returned complexity is 1 + ifs + switch clauses
\* + ternaries + 2 * for loops + 2 * while loops + iteration-method calls
\* + throws + tries, each node of the target's subtree counted once, nested
\* functions included; so it is at least 1.
C21_ComplexityFormula ==
  (Finished /\ HasTarget) =>
    /\ analysis.complexity = ScoreOf(TargetNodes)
    /\ analysis.complexity >= 1

----------------------------------------------------------------------------
(* What resolveType answers when the semantic path is not available.       *)

\* the call found no checker, or its first compiler call or the first step
\* of typeToTypeInfo throws (each of them throws whenever it is reached)
SemanticPathFailed ==
  \/ resolveOut.checkerAtCall = undefined
  \/ resolveOut.failAt \in {"getTypeFromTypeNode", "getFlags"}

\* C22: whenever no checker exists or a step of the semantic resolution
\* throws, resolveType answers with the shape fallbackTypeInfo reads off the
\* annotation (A | B a union, A & B an intersection, Name<Args> a generic,
\* [..] a tuple, a literal a literal), not with a plain named shape wrapping
\* the raw text.
C22_FallbackOnFailure ==
  (/\ resolveOut.kind = "returned"
   /\ resolveOut.typeNode # NoTypeNode
   /\ SemanticPathFailed) =>
    resolveOut.value = fallbackTypeInfo(resolveOut.typeNode)

----------------------------------------------------------------------------
(* The return statements of the target and their guarding conditions.      *)

\* how far up the if statements above the node at path sit: k stands for
\* the ancestor reached by keeping the first k steps of the path
IfAncestors(path) ==
  {k \in 0..(Len(path) - 1) : NodeAt(sourceFile, SubSeq(path, 1, k)).kind = "IfStatement"}

\* the nearest of them (read when there is one)
NearestIfAncestor(path) ==
  NodeAt(sourceFile,
         SubSeq(path, 1, CHOOSE k \in IfAncestors(path) : \A j \in IfAncestors(path) : j <= k))

\* the entry a return statement is to yield
IsEntryOfReturn(entry, path) ==
  LET node == NodeAt(sourceFile, path) IN
  /\ entry.type = IF "expression" \in DOMAIN node THEN node.expression.text ELSE "void"
  /\ entry.line = LineOf(path)
  /\ IF IfAncestors(path) = {}
     THEN "condition" \notin DOMAIN entry
     ELSE /\ "condition" \in DOMAIN entry
          /\ entry.condition = NearestIfAncestor(path).expression.text

RECURSIVE AreEntriesOfReturns(_, _)
\* the k-th entry is the entry of the k-th return statement, for each of paths
AreEntriesOfReturns(entries, paths) ==
  \/ Len(paths) = 0
  \/ /\ Len(entries) > 0
     /\ IsEntryOfReturn(Head(entries), Head(paths))
     /\ AreEntriesOfReturns(Tail(entries), Tail(paths))

IsReturnAt(path) == IsKindAt(path, {"ReturnStatement"})
\* the return statements of the target, in document order
TargetReturns == SelectSeq(TargetNodes, IsReturnAt)

\* C23: every return statement of the target is recorded exactly once, with
\* its expression text or 'void' when it has none: classifying a return
\* statement adds one entry and nothing else adds one.  Its condition is the
\* condition text of the nearest if statement above it, looked for along the
\* parent links up to the source file, and is absent exactly when there is
\* no such if statement.
C23_ReturnsRecorded ==
  /\ [][/\ Classifying({"ReturnStatement"}) =>
             /\ Len(analysis'.returnStatements) = Len(analysis.returnStatements) + 1
             /\ SubSeq(analysis'.returnStatements, 1, Len(analysis.returnStatements))
                  = analysis.returnStatements
             /\ IsEntryOfReturn(analysis'.returnStatements[Len(analysis'.returnStatements)],
                                Head(flowStack).path)
        /\ ~Classifying({"ReturnStatement"}) =>
             analysis'.returnStatements = analysis.returnStatements]_vars
  /\ []((Finished /\ HasTarget) =>
          AreEntriesOfReturns(analysis.returnStatements, TargetReturns))

\* if (legacy) { function run() { if (again) { return x; } return; } } after a
\* declaration of another name: the first return is guarded by the if next to
\* it, the second one by the if statement the target itself sits in
C23_Witness ==
  /\ Finished
  /\ Len(sourceFile.statements) = 2
  /\ sourceFile.statements[1] = FuncDecl("load", <<>>, Block(<<>>))
  /\ sourceFile.statements[2].kind = "IfStatement"
  /\ sourceFile.statements[2].expression.text = "legacy"
  /\ analysis.returnStatements =
       <<[type |-> "x", condition |-> "again", line |-> 2],
         [type |-> "void", condition |-> "legacy", line |-> 2]>>

----------------------------------------------------------------------------
(* Which call expressions are recorded as external calls.                  *)

\* the callee is in the built-in allowlist: a built-in global, a .length or
\* .toString access, or one of the iteration methods counted as a loop
IsAllowlistedCall(node) ==
  \/ \E b \in builtins : StartsWith(node.expression.text, b)
  \/ Includes(node.expression.text, ".length")
  \/ Includes(node.expression.text, ".toString")
  \/ isIterationCall(node)

\* C24: a call expression is recorded in externalCalls exactly when its
\* callee is outside the built-in allowlist; a call of forEach, map, filter,
\* reduce, find, some or every, which is counted as a loop, is never recorded
\* as an external call as well.
C24_ExternalCalls ==
  [][Classifying({"CallExpression"}) =>
       LET node == NodeAt(sourceFile, Head(flowStack).path) IN
       /\ IsAllowlistedCall(node) => analysis'.externalCalls = analysis.externalCalls
       /\ ~IsAllowlistedCall(node) =>
            Len(analysis'.externalCalls) = Len(analysis.externalCalls) + 1]_vars

----------------------------------------------------------------------------
(* The three classes of a parameter record.                                *)

\* the text of a single identifier, not of a binding pattern
IsPlainName(name) == ~Includes(name, "{") /\ ~Includes(name, "[")

\* plain: no flag and a single-value name; destructured: the pattern's
\* text as name, no rest flag; rest: the rest flag, no pattern
IsPlainParam(p) == ~p.isDestructured /\ ~p.isRest /\ IsPlainName(p.name)
IsDestructuredParam(p) == p.isDestructured /\ ~p.isRest /\ ~IsPlainName(p.name)
IsRestParam(p) == p.isRest /\ ~p.isDestructured /\ IsPlainName(p.name)

\* C25: every parameter record extractParams produces is in exactly one of
\* the classes plain, destructured and rest: none has isDestructured and
\* isRest both true, and none with a flag set is a plain single-value name.
C25_OneParamClass ==
  Returned =>
    \A i \in 1..Len(parseOut.value) :
      \A k \in 1..Len(parseOut.value[i].params) :
        LET p == parseOut.value[i].params[k] IN
        Cardinality({c \in {"plain", "destructured", "rest"} :
                       \/ c = "plain" /\ IsPlainParam(p)
                       \/ c = "destructured" /\ IsDestructuredParam(p)
                       \/ c = "rest" /\ IsRestParam(p)}) = 1

----------------------------------------------------------------------------
(* The order of the cases of generateMockValueForType.                     *)

CaseOrder ==
  <<"never", "null", "undefined", "literal", "union", "intersection", "tuple",
    "generic", "table">>

\* the case applies to the shape
CaseApplies(type, case) ==
  CASE case = "never" -> Truthy(type, "isNever")
    [] case = "null" -> Truthy(type, "isNull")
    [] case = "undefined" -> Truthy(type, "isUndefined")
    [] case = "literal" -> Truthy(type, "isLiteral") /\ Present(type, "literalValue")
    [] case = "union" ->
         Truthy(type, "isUnion") /\ Present(type, "unionTypes") /\ Len(type.unionTypes) > 0
    [] case = "intersection" ->
         /\ Truthy(type, "isIntersection") /\ Present(type, "intersectionTypes")
         /\ Len(type.intersectionTypes) > 0
    [] case = "tuple" -> Truthy(type, "isTuple") /\ Present(type, "tupleTypes")
    [] case = "generic" -> Truthy(type, "isGeneric") /\ Present(type, "genericTypes")
    [] OTHER -> TRUE

\* the position in CaseOrder of the earliest case that applies
FirstCase(type) ==
  CHOOSE i \in 1..Len(CaseOrder) :
    /\ CaseApplies(type, CaseOrder[i])
    /\ \A j \in 1..(i - 1) : ~CaseApplies(type, CaseOrder[j])

\* the fields a case reads
CaseFields(case) ==
  CASE case = "never" -> {"isNever"}
    [] case = "null" -> {"isNull"}
    [] case = "undefined" -> {"isUndefined"}
    [] case = "literal" -> {"isLiteral", "literalValue"}
    [] case = "union" -> {"isUnion", "unionTypes"}
    [] case = "intersection" -> {"isIntersection", "intersectionTypes"}
    [] case = "tuple" -> {"isTuple", "tupleTypes"}
    [] case = "generic" -> {"isGeneric", "genericTypes"}
    [] OTHER -> {}

\* the shape with the markers of every case after its first one taken off
\* (a flag every shape has is set to false)
WithoutLaterCases(type) ==
  LET later == UNION {CaseFields(CaseOrder[i]) : i \in (FirstCase(type) + 1)..Len(CaseOrder)}
      flags == {"isUnion", "isIntersection", "isGeneric"}
  IN [k \in DOMAIN type \ (later \ flags) |-> IF k \in later THEN FALSE ELSE type[k]]

\* C26: generateMockValueForType decides by the first case that applies, in
\* the order never, null, undefined, literal, union, intersection, tuple,
\* generic, primitive-name table, empty-object fallback: a shape with several
\* variant markers gets the text of its earliest case, and the markers of
\* later cases have no influence on the text.
C26_FirstCaseDecides ==
  mockOut.kind # "none" =>
    /\ mockOut = generateMockValueForType(WithoutLaterCases(mockIn))
    /\ CaseOrder[FirstCase(mockIn)] \in {"never", "undefined"} =>
         mockOut = MockString("undefined")
    /\ CaseOrder[FirstCase(mockIn)] = "null" => mockOut = MockString("null")

----------------------------------------------------------------------------
(* The disposed state of a TypeResolver.                                   *)

\* C30: the disposed state is monotonic: once dispose() has run, isDisposed()
\* is true after every later operation, a further dispose() changes nothing,
\* and in every disposed state the program and the checker are absent.
C30_DisposedMonotonic ==
  /\ [](isDisposed => (program = undefined /\ checker = undefined))
  /\ [][isDisposed => (disposed' /\ program' = program /\ checker' = checker)]_vars

\* a resolver that had a checker and answered a call with it, disposed
\* afterwards
C30_Witness ==
  /\ isDisposed
  /\ program = undefined
  /\ checker = undefined
  /\ resolveOut.kind = "returned"
  /\ ~resolveOut.disposedAtCall
  /\ resolveOut.checkerAtCall = "checker"

----------------------------------------------------------------------------
(* The module's resolver over a call of parseFile.                         *)

\* C27: a TypeResolver that a call of parseFile creates is disposed before
\* the call returns or raises, and the module's typeResolver is null
\* afterwards: when the call is over, typeResolver does not hold a resolver
\* this call created.
C27_ResolverReleased ==
  parsePc = "done" => typeResolver # "created"

\* the top-level function declarations of the parsed file that have a name
NamedFunctions ==
  LET IsNamedFunction(stmt) == stmt.kind = "FunctionDeclaration" /\ "name" \in DOMAIN stmt
  IN SelectSeq(fileEntry.tree.statements, IsNamedFunction)

\* the annotation of a parameter
AnnotationOf(param) == IF "type" \in DOMAIN param THEN param.type ELSE NoTypeNode

\* the shape an annotation is to get: the resolver's answer while the module
\* holds a resolver, the shape read off the annotation's grammar otherwise
ExpectedTypeInfo(typeNode) ==
  IF typeNode = NoTypeNode THEN AnyTypeInfo
  ELSE IF typeResolver = "null" THEN fallbackTypeInfo(typeNode)
  ELSE ResolverAnswer(typeNode).value

\* the record carries the shapes the parameters of decl are to get
HasExpectedTypes(record, decl) ==
  /\ record.name = decl.name.text
  /\ Len(record.params) = Len(decl.parameters)
  /\ \A k \in 1..Len(decl.parameters) :
       record.params[k].type = ExpectedTypeInfo(AnnotationOf(decl.parameters[k]))

----------------------------------------------------------------------------
(* findProjectRoot of the config loader (config-loader.ts:225-281): the    *)
(* upward search for the directory that holds package.json.  A directory   *)
(* on the path of the working directory is the number of its path          *)
(* segments: 0 is the root of the file system and the parent of k is k - 1.*)

\* const MAX_DEPTH = 50
MAX_DEPTH == 50

\* the deepest working directory
MaxCwdDepth == 52

\* path.parse(currentDir).root
PathRoot(dir) == 0

\* path.dirname: the root is its own parent
Dirname(dir) == IF dir = PathRoot(dir) THEN dir ELSE dir - 1

\* fs.realpathSync(dir) throws (the directory was removed)
RealpathThrows == -1

\* the working directories: next to the root, and around MAX_DEPTH segments
CwdLevels == {0, 1, 2, 3, MAX_DEPTH, MaxCwdDepth}

\* the directories of the path that a package.json, a symbolic link or a
\* removed directory is placed at
PlacesOf(dir) == {k \in {0, 1, 2, dir - 1, dir} : k >= 0 /\ k <= dir}

\* what realpathSync answers: every directory is its own real path, or one
\* directory is a link to a directory above it, or one directory is gone
RealPathsOf(dir) ==
  {[k \in 0..dir |-> k]}
    \cup {[k \in 0..dir |-> IF k = link[1] THEN link[2] ELSE k] :
            link \in {l \in PlacesOf(dir) \X PlacesOf(dir) : l[2] < l[1]}}
    \cup {[k \in 0..dir |-> IF k = gone THEN RealpathThrows ELSE k] : gone \in PlacesOf(dir)}

\* where package.json files are: two paths of one real directory hold the
\* same files
PackagesOf(dir, real) ==
  {held \in SUBSET PlacesOf(dir) :
     \A k \in PlacesOf(dir) : \A j \in PlacesOf(dir) :
       real[k] = real[j] => (k \in held <=> j \in held)}

\* lines 226-236: the locals before the loop is entered
InitRoot ==
  /\ ResolverIdle
  /\ MockIdle
  /\ FlowIdle
  /\ MergeIdle
  /\ LoadIdle
  /\ ParseIdle
  /\ cwd \in CwdLevels
  /\ realPath \in RealPathsOf(cwd)
  /\ packageJson \in PackagesOf(cwd, realPath)
  /\ currentDir = cwd
  /\ depth = 0
  /\ visited = {}
  /\ examined = <<>>
  /\ rootPc = "loop"
  /\ rootOut = [kind |-> "none"]

\* the mutant of ContinueSearch: the loop is bounded by the root only
ContinueSearch_RootOnly(dir, d) == dir # PathRoot(dir)

\* while (currentDir !== root && depth < MAX_DEPTH)
ContinueSearch(dir, d) == dir # PathRoot(dir) /\ d < MAX_DEPTH

\* return process.cwd()
ReturnCwd == [kind |-> "return", value |-> cwd]

\* line 240 throws: the outer catch, then return process.cwd()
RootRealpathThrows ==
  /\ rootPc = "loop"
  /\ ContinueSearch(currentDir, depth)
  /\ realPath[currentDir] = RealpathThrows
  /\ rootPc' = "done"
  /\ rootOut' = ReturnCwd
  /\ UNCHANGED <<cwd, packageJson, realPath, currentDir, depth, visited, examined>>
  /\ UNCHANGED <<resolverVars, mockVars, flowVars, mergeVars, loadVars, parseVars>>

\* lines 241-246: the real path was seen before, break
RootCircular ==
  /\ rootPc = "loop"
  /\ ContinueSearch(currentDir, depth)
  /\ realPath[currentDir] # RealpathThrows
  /\ realPath[currentDir] \in visited
  /\ rootPc' = "done"
  /\ rootOut' = ReturnCwd
  /\ UNCHANGED <<cwd, packageJson, realPath, currentDir, depth, visited, examined>>
  /\ UNCHANGED <<resolverVars, mockVars, flowVars, mergeVars, loadVars, parseVars>>

\* lines 247-253: the directory holds package.json, return currentDir
RootFound ==
  /\ rootPc = "loop"
  /\ ContinueSearch(currentDir, depth)
  /\ realPath[currentDir] # RealpathThrows
  /\ realPath[currentDir] \notin visited
  /\ currentDir \in packageJson
  /\ visited' = visited \cup {realPath[currentDir]}
  /\ examined' = Append(examined, currentDir)
  /\ rootPc' = "done"
  /\ rootOut' = [kind |-> "return", value |-> currentDir]
  /\ UNCHANGED <<cwd, packageJson, realPath, currentDir, depth>>
  /\ UNCHANGED <<resolverVars, mockVars, flowVars, mergeVars, loadVars, parseVars>>

\* lines 247-268: no package.json here, go on with the parent (break when
\* the directory is its own parent)
RootAscend ==
  /\ rootPc = "loop"
  /\ ContinueSearch(currentDir, depth)
  /\ realPath[currentDir] # RealpathThrows
  /\ realPath[currentDir] \notin visited
  /\ currentDir \notin packageJson
  /\ visited' = visited \cup {realPath[currentDir]}
  /\ examined' = Append(examined, currentDir)
  /\ IF Dirname(currentDir) = currentDir
     THEN /\ rootPc' = "done"
          /\ rootOut' = ReturnCwd
          /\ UNCHANGED <<currentDir, depth>>
     ELSE /\ currentDir' = Dirname(currentDir)
          /\ depth' = depth + 1
          /\ UNCHANGED <<rootPc, rootOut>>
  /\ UNCHANGED <<cwd, packageJson, realPath>>
  /\ UNCHANGED <<resolverVars, mockVars, flowVars, mergeVars, loadVars, parseVars>>

\* lines 238, 271-280: the loop is over, return process.cwd()
RootGiveUp ==
  /\ rootPc = "loop"
  /\ ~ContinueSearch(currentDir, depth)
  /\ rootPc' = "done"
  /\ rootOut' = ReturnCwd
  /\ UNCHANGED <<cwd, packageJson, realPath, currentDir, depth, visited, examined>>
  /\ UNCHANGED <<resolverVars, mockVars, flowVars, mergeVars, loadVars, parseVars>>

NextRoot == RootRealpathThrows \/ RootCircular \/ RootFound \/ RootAscend \/ RootGiveUp

SpecRoot == InitRoot /\ [][NextRoot]_vars

\* the function is synchronous: a call that has started keeps running
SpecRootFair == SpecRoot /\ WF_vars(NextRoot)

\* the directories looked into that hold a package.json
FoundAt == {i \in 1..Len(examined) : examined[i] \in packageJson}

\* what the search is to return: the first directory it looked into that
\* holds package.json, the working directory when there is none
ExpectedRoot ==
  IF FoundAt = {} THEN cwd
  ELSE examined[CHOOSE i \in FoundAt : \A j \in FoundAt : i <= j]

SearchIsBounded ==
  /\ Len(examined) <= MAX_DEPTH
  /\ \A i \in 1..Len(examined) : \A j \in 1..Len(examined) :
       i # j => realPath[examined[i]] # realPath[examined[j]]
  /\ \A i \in 1..Len(examined) : examined[i] # PathRoot(cwd)
  /\ rootPc = "done" => rootOut = [kind |-> "return", value |-> ExpectedRoot]

=============================================================================
